---- MODULE Spec2Model ----
(***************************************************************************)
(* Model of the team-migration orchestrator of src/module.py:              *)
(* migrate_teams_optimized with its helpers create_gh_team,                *)
(* set_team_parent, get_team_by_name, user_exists_in_org, validate_user    *)
(* and migrate_team_members.                                               *)
(*                                                                         *)
(* Names (team names, slugs, logins) are sequences of one-character        *)
(* strings, so that str.lower() and the platform's slug derivation are     *)
(* computed character by character.  Python dicts are sequences of         *)
(* <<key, value>> pairs in insertion order.  A target team handle is the   *)
(* team's id on the target platform (its index in tgt); 0 stands for None. *)
(***************************************************************************)
EXTENDS Integers, Sequences, FiniteSets, TLC

----------------------------------------------------------------------------
(* Bounds of the model *)

----------------------------------------------------------------------------
(* Strings *)

\* str.lower() on one character
LowerChar(c) == CASE c = "A" -> "a" [] c = "B" -> "b" [] c = "U" -> "u" [] OTHER -> c

\* str.lower()
Lower(s) == [i \in DOMAIN s |-> LowerChar(s[i])]

\* the platform derives a team's slug from its name: lowercase, blanks to hyphens
Slugify(s) == [i \in DOMAIN s |-> IF s[i] = " " THEN "-" ELSE LowerChar(s[i])]

NoName == <<>>
NoTeam == 0

----------------------------------------------------------------------------
(* Python dicts: insertion-ordered sequences of <<key, value>> *)

DictHas(d, k) == \E i \in DOMAIN d : d[i][1] = k

DictGet(d, k) == d[CHOOSE i \in DOMAIN d : d[i][1] = k][2]

DictPut(d, k, v) ==
    IF DictHas(d, k)
    THEN [i \in DOMAIN d |-> IF d[i][1] = k THEN <<k, v>> ELSE d[i]]
    ELSE Append(d, <<k, v>>)

DictKeys(d) == [i \in DOMAIN d |-> d[i][1]]

KeySet(d) == {d[i][1] : i \in DOMAIN d}

ValueSet(d) == {d[i][2] : i \in DOMAIN d}

Range(s) == {s[i] : i \in DOMAIN s}

\* list.index(x): position of the first occurrence
IndexOf(s, x) == CHOOSE i \in DOMAIN s : s[i] = x /\ \A j \in 1..(i - 1) : s[j] # x

\* s[k:] for a 1-based k
Suffix(s, k) == [i \in 1..(Len(s) - k + 1) |-> s[i + k - 1]]

RECURSIVE Flatten(_)
Flatten(ss) == IF ss = <<>> THEN <<>> ELSE Head(ss) \o Flatten(Tail(ss))

----------------------------------------------------------------------------
(* The two tenants *)

nA   == <<"A">>
na   == <<"a">>
nb   == <<"b">>
nab  == <<"a", "-", "b">>
nAB  == <<"a", " ", "b">>
nzz  == <<"z">>
uU   == <<"u">>
uV   == <<"v">>
uW   == <<"w">>

\* The source organization: three teams; `parents` gives each slug's parent
\* slug (NoName for a root team).
SourceOrg(parents) ==
    << [name |-> nA,  slug |-> na,  description |-> "None", privacy |-> "closed",
        parent |-> parents[1], members |-> <<uU, uV>>, maintainers |-> {uU}],
       [name |-> nb,  slug |-> nb,  description |-> "team b", privacy |-> "secret",
        parent |-> parents[2], members |-> <<uU>>, maintainers |-> {}],
       [name |-> nAB, slug |-> nab, description |-> "None", privacy |-> "closed",
        parent |-> parents[3], members |-> <<>>, maintainers |-> {}] >>

\* Hierarchies of the source organization (the platform keeps them acyclic).
Hierarchies ==
    { <<NoName, na, NoName>>,
      <<nb, NoName, nb>> }

\* A team of the target organization: members is a dict login -> role, group
\* the id of the external group the team is bound to (0: none).
TargetTeam(name, members, group) ==
    [name |-> name, slug |-> Slugify(name), description |-> "", privacy |-> "closed",
     parent |-> NoTeam, members |-> members, group |-> group]

\* Target organizations the run may start from.
TargetOrgs ==
    { <<>>,
      << TargetTeam(nA, << <<uW, "member">> >>, 0) >>,
      << TargetTeam(nAB, <<>>, 0), TargetTeam(nA, <<>>, 11) >>,
      << TargetTeam(nAB, <<>>, 0), TargetTeam(nA, << <<uW, "member">> >>, 12) >> }

\* teams_to_migrate as given by the caller; <<>> stands for None.
Requests ==
    { <<>>, <<nzz, nA, nb>>, <<na, na, nb>> }

----------------------------------------------------------------------------
VARIABLES
    \* the platform
    src,            \* teams of the source organization
    tgt,            \* teams of the target organization, by id
    ghUsers,        \* logins that resolve on the target platform
    orgMembers,     \* logins of the target organization's members
    \* arguments and locals of the current invocation of migrate_teams_optimized
    teams_to_migrate, migrate_users, map_idp_groups, migrate_parent_child,
    team_cache, migration_status, migration_details, target_teams_cache,
    idp_group_cache, parent_child_relationships,
    batch_num, index,   \* position of the team loop (both 1-based)
    rel_index,          \* position of the parent-link loop
    pc,                 \* where the invocation stands
    result,             \* value returned by the run ("none" until it returns)
    \* locals of migrate_team_members
    source_team, target_team, source_members, member_index,
    users_status, member_details, members_migrated, members_failed,
    member_results,
    team_details,       \* team_details of the team being processed
    \* bookkeeping of the verification
    trace,          \* the platform calls issued by the latest step, in order
    fault_budget,   \* failures that may still be injected in this run
    run,            \* 1 for the first run, 2 for the second
    request,        \* teams_to_migrate as the caller gave it
    tgtAtStart,     \* number of target teams when the run started
    restarted,      \* the current run restarted itself after a rate limit
    recorded,       \* statuses written by invocations that were restarted
    created,        \* names for which create_team succeeded, per run
    createCalls,    \* names for which create_team was called in this run
    rejected,       \* names whose create_team was answered 422 or 403 in this run
    parentCalls     \* arguments of every set_team_parent call of this run

platformVars == <<src, tgt, ghUsers, orgMembers>>
argVars      == <<teams_to_migrate, migrate_users, map_idp_groups, migrate_parent_child>>
flagVars     == <<migrate_users, map_idp_groups, migrate_parent_child>>
cacheVars    == <<team_cache, target_teams_cache, idp_group_cache, parent_child_relationships>>
statusVars   == <<migration_status, migration_details>>
loopVars     == <<batch_num, index, rel_index>>
memberVars   == <<source_team, target_team, source_members, member_index, users_status,
                  member_details, members_migrated, members_failed, member_results,
                  team_details>>
ghostVars    == <<run, request, tgtAtStart, restarted, recorded, created, createCalls,
                  rejected,
                  parentCalls>>

vars == <<src, tgt, ghUsers, orgMembers,
          teams_to_migrate, migrate_users, map_idp_groups, migrate_parent_child,
          team_cache, migration_status, migration_details, target_teams_cache,
          idp_group_cache, parent_child_relationships, batch_num, index, rel_index,
          pc, result,
          source_team, target_team, source_members, member_index, users_status,
          member_details, members_migrated, members_failed, member_results,
          team_details,
          trace, fault_budget, run, request, tgtAtStart, restarted, recorded, created,
          createCalls, rejected, parentCalls>>

\* one platform call, as it appears in trace
Call(op, arg) == [op |-> op, arg |-> arg, role |-> ""]

\* a listing of an organization's teams and the status it is answered with
\* (429: RateLimitExceededException)
Listing(code) == [op |-> "get_teams", arg |-> NoName, role |-> "", code |-> code]

----------------------------------------------------------------------------
(* Bounds on the injected failures and program constants *)

\* failures (other than the rate limits that restart the run) injected per run
MaxFaults == 1

\* batch_size of the team loop.  The program uses 100; the model scales it to 2
\* so that the lists of Requests span more than one batch.
batch_size == 2

\* batch size of the parent-link loop (50 in the program), scaled likewise
link_batch_size == 1

----------------------------------------------------------------------------
(* Source side: the Entity Cache Builder *)

\* team.description or ''
DescriptionOrEmpty(d) == IF d = "None" THEN "" ELSE d

\* the record cached for a source team
TeamInfo(t) ==
    [name |-> t.name, description |-> DescriptionOrEmpty(t.description),
     privacy |-> t.privacy, parent |-> t.parent, team_obj |-> t.slug]

\* source_org_obj.get_team_by_slug: the platform resolves slugs without regard
\* to case; 0 when no team has the slug (UnknownObjectException)
SourceTeamBySlug(s) ==
    IF \E i \in DOMAIN src : src[i].slug = Lower(s)
    THEN CHOOSE i \in DOMAIN src : src[i].slug = Lower(s)
    ELSE 0

\* Lines 595-620: fetch each named team.  outcome[i] is what the platform does
\* with the i-th request: "ok", "rate" (rate limited once, the retry is
\* answered), "rate2" (the retry is rate limited too) or "err" (another error).
\* Returns the cache, the calls and whether an exception escaped.
RECURSIVE FetchNamed(_, _, _, _, _)
FetchNamed(names, outcome, i, cache, calls) ==
    IF i > Len(names) THEN [cache |-> cache, calls |-> calls, raised |-> FALSE]
    ELSE
      LET name == names[i]
          t    == SourceTeamBySlug(name)
          get  == Call("get_team_by_slug", name)
          gov  == Call("governor", NoName)
          put  == DictPut(cache, src[t].slug, TeamInfo(src[t]))
      IN  CASE outcome[i] = "ok" /\ t # 0 ->
                 FetchNamed(names, outcome, i + 1, put, Append(calls, get))
            [] outcome[i] = "ok" /\ t = 0 ->
                 FetchNamed(names, outcome, i + 1, cache, Append(calls, get))
            [] outcome[i] = "err" ->
                 FetchNamed(names, outcome, i + 1, cache, Append(calls, get))
            [] outcome[i] = "rate" /\ t # 0 ->
                 FetchNamed(names, outcome, i + 1, put, calls \o <<get, gov, get>>)
            [] OTHER ->
                 [cache |-> cache, calls |-> calls \o <<get, gov, get>>, raised |-> TRUE]

\* Lines 633-640: cache every listed team under its slug
RECURSIVE CacheAll(_, _)
CacheAll(teams, cache) ==
    IF teams = <<>> THEN cache
    ELSE CacheAll(Tail(teams), DictPut(cache, Head(teams).slug, TeamInfo(Head(teams))))

NumFaults(outcome) == Cardinality({i \in DOMAIN outcome : outcome[i] # "ok"})

\* team_details as initialized at lines 728-737
InitialDetails(team_name, team_info) ==
    [description |-> team_info.description, privacy |-> team_info.privacy,
     total_members |-> 0, members_migrated |-> 0, members_failed |-> 0,
     member_details |-> <<>>, idp_group_name |-> team_name,
     idp_mapping_status |-> "not_attempted"]

NoDetails ==
    InitialDetails(NoName, [description |-> "", privacy |-> ""])

\* the locals of a fresh invocation (lines 584-587) and of its loops
FreshLocals ==
    /\ team_cache = <<>>
    /\ migration_status = <<>>
    /\ migration_details = <<>>
    /\ target_teams_cache = <<>>
    /\ idp_group_cache = <<>>
    /\ parent_child_relationships = <<>>
    /\ batch_num = 1
    /\ index = 1
    /\ rel_index = 1

FreshLocalsNext ==
    /\ team_cache' = <<>>
    /\ migration_status' = <<>>
    /\ migration_details' = <<>>
    /\ target_teams_cache' = <<>>
    /\ idp_group_cache' = <<>>
    /\ parent_child_relationships' = <<>>
    /\ batch_num' = 1
    /\ index' = 1
    /\ rel_index' = 1

FreshMemberLocals ==
    /\ source_members = <<>>
    /\ member_index = 1
    /\ users_status = <<>>
    /\ member_details = <<>>
    /\ members_migrated = 0
    /\ members_failed = 0
    /\ member_results = [success |-> TRUE, total_members |-> 0, members_migrated |-> 0,
                         members_failed |-> 0, member_details |-> <<>>]
    /\ team_details = NoDetails

FreshMemberLocalsNext ==
    /\ source_team' = 0
    /\ target_team' = NoTeam
    /\ source_members' = <<>>
    /\ member_index' = 1
    /\ users_status' = <<>>
    /\ member_details' = <<>>
    /\ members_migrated' = 0
    /\ members_failed' = 0
    /\ member_results' = [success |-> TRUE, total_members |-> 0, members_migrated |-> 0,
                          members_failed |-> 0, member_details |-> <<>>]
    /\ team_details' = NoDetails

\* an exception leaves migrate_teams_optimized
Raise(calls) ==
    /\ pc' = "raised"
    /\ trace' = calls
    /\ UNCHANGED <<platformVars, argVars, cacheVars, statusVars, loopVars, result,
                   memberVars, ghostVars>>

\* Lines 593-622 and 648-650: filtered mode
FetchNamedTeams ==
    /\ pc = "fetch_source"
    /\ teams_to_migrate # <<>>
    /\ \E outcome \in [DOMAIN teams_to_migrate -> {"ok", "rate", "rate2", "err"}] :
         /\ NumFaults(outcome) <= fault_budget
         /\ fault_budget' = fault_budget - NumFaults(outcome)
         /\ LET r == FetchNamed(teams_to_migrate, outcome, 1, team_cache, <<>>)
            IN  IF r.raised THEN Raise(r.calls)
                ELSE /\ team_cache' = r.cache
                     /\ pc' = "fetch_target"
                     /\ trace' = r.calls
                     /\ UNCHANGED <<platformVars, argVars, migration_status,
                                    migration_details, target_teams_cache, idp_group_cache,
                                    parent_child_relationships, loopVars, result,
                                    memberVars, ghostVars>>

\* Lines 623-640 and 648-650: unfiltered mode, the listing is answered
ListSourceTeams ==
    /\ pc = "fetch_source"
    /\ teams_to_migrate = <<>>
    /\ team_cache' = CacheAll(src, team_cache)
    /\ teams_to_migrate' = DictKeys(team_cache')
    /\ pc' = "fetch_target"
    /\ trace' = << Listing(200) >>
    /\ UNCHANGED <<platformVars, flagVars, migration_status, migration_details,
                   target_teams_cache, idp_group_cache, parent_child_relationships,
                   loopVars, result, memberVars, fault_budget, ghostVars>>

\* Lines 641-646: the listing is rate limited: wait, then call the function
\* again with the same arguments
ListSourceRateLimited ==
    /\ pc = "fetch_source"
    /\ teams_to_migrate = <<>>
    /\ FreshLocalsNext
    /\ pc' = "fetch_source"
    /\ restarted' = TRUE
    /\ trace' = << Listing(429), Call("governor", NoName), Call("restart", NoName) >>
    /\ UNCHANGED <<platformVars, argVars, result, memberVars, fault_budget,
                   run, request, tgtAtStart, recorded, created, createCalls, rejected,
                   parentCalls>>

\* Line 629 fails with another error: nothing catches it
ListSourceFails ==
    /\ pc = "fetch_source"
    /\ teams_to_migrate = <<>>
    /\ fault_budget > 0
    /\ fault_budget' = fault_budget - 1
    /\ Raise(<< Listing(500) >>)

----------------------------------------------------------------------------
(* Target side: cache by name and by slug; IDP groups; creation order *)

\* Lines 662-664: index every fetched team by lowercase name and lowercase slug
RECURSIVE CacheTargets(_, _)
CacheTargets(i, cache) ==
    IF i > Len(tgt) THEN cache
    ELSE CacheTargets(i + 1,
            DictPut(DictPut(cache, Lower(tgt[i].name), i), Lower(tgt[i].slug), i))

\* Lines 652-664: the target listing is answered
FetchTargetTeams ==
    /\ pc = "fetch_target"
    /\ target_teams_cache' = CacheTargets(1, target_teams_cache)
    /\ pc' = "prepare"
    /\ trace' = << Call("get_organization", NoName), Listing(200) >>
    /\ UNCHANGED <<platformVars, argVars, team_cache, idp_group_cache,
                   parent_child_relationships, statusVars, loopVars, result,
                   memberVars, fault_budget, ghostVars>>

\* a handler that waits and lists the target teams again, keeping the source
\* cache it has
FetchTargetRateLimitedRelists ==
    /\ pc = "fetch_target"
    /\ pc' = "fetch_target"
    /\ restarted' = TRUE
    /\ trace' = << Call("get_organization", NoName), Listing(429),
                   Call("governor", NoName), Call("restart", NoName) >>
    /\ UNCHANGED <<platformVars, argVars, cacheVars, statusVars, loopVars, result,
                   memberVars, fault_budget,
                   run, request, tgtAtStart, recorded, created, createCalls, rejected,
                   parentCalls>>

\* Lines 665-670: the target listing is rate limited: wait, then call the
\* function again with the team list determined so far
FetchTargetRateLimited ==
    /\ pc = "fetch_target"
    /\ FreshLocalsNext
    /\ pc' = "fetch_source"
    /\ restarted' = TRUE
    /\ trace' = << Call("get_organization", NoName), Listing(429),
                   Call("governor", NoName), Call("restart", NoName) >>
    /\ UNCHANGED <<platformVars, argVars, result, memberVars, fault_budget,
                   run, request, tgtAtStart, recorded, created, createCalls, rejected,
                   parentCalls>>

\* Line 654 or 658 fails with another error: nothing catches it
FetchTargetFails ==
    /\ pc = "fetch_target"
    /\ fault_budget > 0
    /\ fault_budget' = fault_budget - 1
    /\ Raise(<< Call("get_organization", NoName) >>)

\* the external identity-provider groups of the target organization
ExternalGroups ==
    << [group_id |-> 11, group_name |-> nA],
       [group_id |-> 12, group_name |-> nAB] >>

\* group_name.replace('-', '_').replace(' ', '_')
NormalizeGroupName(s) ==
    [i \in DOMAIN s |-> IF s[i] = "-" \/ s[i] = " " THEN "_" ELSE s[i]]

\* Lines 680-688: cache each group by lowercase name and by normalized name
RECURSIVE CacheGroups(_, _)
CacheGroups(groups, cache) ==
    IF groups = <<>> THEN cache
    ELSE LET group      == Head(groups)
             group_name == Lower(group.group_name)
             normalized == NormalizeGroupName(group_name)
             c1         == DictPut(cache, group_name, group)
             c2         == IF normalized # group_name THEN DictPut(c1, normalized, group)
                           ELSE c1
         IN  CacheGroups(Tail(groups), c2)

\* Lines 697-699: the (child, parent) pairs of the cached source teams
RECURSIVE Relationships(_)
Relationships(cache) ==
    IF cache = <<>> THEN <<>>
    ELSE LET team_slug == Head(cache)[1]
             team_info == Head(cache)[2]
         IN  (IF team_info.parent # NoName THEN << <<team_slug, team_info.parent>> >>
              ELSE <<>>) \o Relationships(Tail(cache))

\* the teams left in their input order, whatever the relationships
KahnOrderAsGiven(remaining, relationships, emitted) == emitted \o remaining

\* a resolver that emits the free teams only and drops the teams of a cycle
RECURSIVE KahnOrderDropsCycle(_, _, _)
KahnOrderDropsCycle(remaining, relationships, emitted) ==
    IF remaining = <<>> THEN emitted
    ELSE LET blocked(t) == \E r \in Range(relationships) :
                               r[1] = t /\ r[2] \in Range(remaining)
             free == {i \in DOMAIN remaining : ~blocked(remaining[i])}
         IN  IF free = {} THEN emitted
             ELSE LET i == CHOOSE k \in free : \A j \in free : k <= j
                  IN  KahnOrderDropsCycle(SubSeq(remaining, 1, i - 1)
                                              \o SubSeq(remaining, i + 1, Len(remaining)),
                                          relationships, Append(emitted, remaining[i]))

\* optimize_parent_child_migration: a stable topological order of the cached
\* teams (Kahn): emit, again and again, the first team in cache order none of
\* whose un-emitted parents is among the teams; when no team is free (a cycle),
\* emit what remains in the original order.
RECURSIVE KahnOrder(_, _, _)
KahnOrder(remaining, relationships, emitted) ==
    IF remaining = <<>> THEN emitted
    ELSE LET blocked(t) == \E r \in Range(relationships) :
                               r[1] = t /\ r[2] \in Range(remaining)
             free == {i \in DOMAIN remaining : ~blocked(remaining[i])}
         IN  IF free = {} THEN emitted \o remaining
             ELSE LET i == CHOOSE k \in free : \A j \in free : k <= j
                  IN  KahnOrder(SubSeq(remaining, 1, i - 1)
                                    \o SubSeq(remaining, i + 1, Len(remaining)),
                                relationships, Append(emitted, remaining[i]))

optimize_parent_child_migration(relationships, cache) ==
    KahnOrder(DictKeys(cache), relationships, <<>>)

\* Lines 672-711: prefetch the IDP groups (an error leaves the cache empty),
\* collect the relationships, order the teams
Prepare ==
    /\ pc = "prepare"
    /\ \E idp_ok \in BOOLEAN :
         /\ ~idp_ok => map_idp_groups /\ fault_budget > 0
         /\ fault_budget' = IF idp_ok THEN fault_budget ELSE fault_budget - 1
         /\ idp_group_cache' = IF map_idp_groups /\ idp_ok
                               THEN CacheGroups(ExternalGroups, <<>>) ELSE <<>>
         /\ trace' = IF map_idp_groups THEN << Call("get_all_external_groups", NoName) >>
                     ELSE <<>>
    /\ parent_child_relationships' =
         IF migrate_parent_child THEN Relationships(team_cache) ELSE <<>>
    /\ teams_to_migrate' =
         IF migrate_parent_child
         THEN optimize_parent_child_migration(parent_child_relationships', team_cache)
         ELSE teams_to_migrate
    /\ pc' = "process"
    /\ batch_num' = 1
    /\ index' = 1
    /\ rel_index' = 1
    /\ UNCHANGED <<platformVars, flagVars, team_cache, target_teams_cache, statusVars,
                   result, memberVars, ghostVars>>

----------------------------------------------------------------------------
(* Identity Mapping Binder.  HTTP status codes are numbers; 0 stands for a  *)
(* network failure (requests.exceptions.RequestException).                  *)

\* a in b, for strings
IsInfix(a, b) ==
    \E k \in 0..(Len(b) - Len(a)) : SubSeq(b, k + 1, k + Len(a)) = a

\* the target team the platform resolves a slug to (0: none)
TargetTeamBySlug(teams, s) ==
    IF \E i \in DOMAIN teams : teams[i].slug = Lower(s)
    THEN CHOOSE i \in DOMAIN teams : teams[i].slug = Lower(s)
    ELSE 0

GroupById(id) ==
    ExternalGroups[CHOOSE i \in DOMAIN ExternalGroups : ExternalGroups[i].group_id = id]

\* check_team_external_group_mapping (lines 515-576); code is the status the
\* platform answers the GET with when nothing else decides it
check_team_external_group_mapping(teams, team_slug, expected_group_name, code) ==
    LET t     == TargetTeamBySlug(teams, team_slug)
        bound == code = 200 /\ t # 0 /\ teams[t].group # 0
        group_name == GroupById(teams[t].group).group_name
        is_expected_group ==
            \/ Lower(group_name) = Lower(expected_group_name)
            \/ IsInfix(Lower(expected_group_name), Lower(group_name))
        is_mapped == bound /\ (expected_group_name # NoName => is_expected_group)
        calls == << [op |-> "get_binding", arg |-> team_slug, role |-> "",
                     code |-> code, is_mapped |-> is_mapped] >>
    IN  [is_mapped |-> is_mapped, group |-> IF bound THEN teams[t].group ELSE 0,
         calls |-> calls]

\* the platform removes a member from a team
RemoveMember(teams, t, login) ==
    IF t = 0 THEN teams
    ELSE [teams EXCEPT ![t].members =
             SelectSeq(teams[t].members, LAMBDA m : m[1] # login)]

\* username.strip(): the name without the blanks around it
RECURSIVE Strip(_)
Strip(s) ==
    IF s = <<>> THEN s
    ELSE IF Head(s) = " " THEN Strip(Tail(s))
    ELSE IF s[Len(s)] = " " THEN Strip(SubSeq(s, 1, Len(s) - 1))
    ELSE s

\* remove_users_from_team (lines 355-424); codes[i] answers the DELETE issued
\* for users[i]
RECURSIVE RemoveUsers(_, _, _, _, _, _)
RemoveUsers(teams, team_slug, users, codes, i, acc) ==
    IF i > Len(users) THEN [acc EXCEPT !.teams = teams]
    ELSE
      LET username == Strip(users[i])
          call     == [op |-> "delete_membership", arg |-> username, role |-> "",
                       code |-> codes[i]]
          t        == TargetTeamBySlug(teams, team_slug)
      IN  IF username = NoName
          THEN RemoveUsers(teams, team_slug, users, codes, i + 1, acc)
          ELSE CASE codes[i] \in {204, 404} ->
                      RemoveUsers(IF codes[i] = 204 THEN RemoveMember(teams, t, username)
                                  ELSE teams,
                                  team_slug, users, codes, i + 1,
                                  [acc EXCEPT !.success_count = @ + 1,
                                              !.details = Append(@, <<username, "Success">>),
                                              !.calls = Append(@, call)])
                 [] codes[i] = 0 \/ codes[i] >= 500 ->
                      [acc EXCEPT !.raised = TRUE, !.teams = teams,
                                  !.details = IF codes[i] = 0 THEN @
                                              ELSE Append(@, <<username, "Failed (will retry)">>),
                                  !.calls = Append(@, call)]
                 [] OTHER ->
                      RemoveUsers(teams, team_slug, users, codes, i + 1,
                                  [acc EXCEPT !.failed_count = @ + 1,
                                              !.details = Append(@, <<username, "Failed">>),
                                              !.calls = Append(@, call)])

\* a remover that returns its counts after a server error instead of raising
remove_users_from_team_swallows(teams, team_slug, users, codes) ==
    [RemoveUsers(teams, team_slug, users, codes, 1,
                 [success_count |-> 0, failed_count |-> 0, details |-> <<>>,
                  raised |-> FALSE, teams |-> teams, calls |-> <<>>])
        EXCEPT !.raised = FALSE]

remove_users_from_team(teams, team_slug, users, codes) ==
    RemoveUsers(teams, team_slug, users, codes, 1,
                [success_count |-> 0, failed_count |-> 0, details |-> <<>>,
                 raised |-> FALSE, teams |-> teams, calls |-> <<>>])

\* the platform's external-group search by display name: the groups whose
\* name contains the text
SearchGroups(text) ==
    SelectSeq(ExternalGroups, LAMBDA g : IsInfix(Lower(text), Lower(g.group_name)))

\* Lines 450-480: the group id to bind (0: none found)
ResolveGroupId(team_slug, group_id, cache, search_code) ==
    IF group_id # 0 THEN [group_id |-> group_id, calls |-> <<>>]
    ELSE IF cache # <<>> /\ DictHas(cache, Lower(team_slug))
    THEN [group_id |-> DictGet(cache, Lower(team_slug)).group_id, calls |-> <<>>]
    ELSE LET groups   == SearchGroups(team_slug)
             matching == SelectSeq(groups,
                             LAMBDA g : Lower(g.group_name) = Lower(team_slug))
             calls    == << [op |-> "search_groups", arg |-> team_slug, role |-> "",
                             code |-> search_code] >>
         IN  IF search_code # 200 \/ groups = <<>> \/ matching = <<>>
             THEN [group_id |-> 0, calls |-> calls]
             ELSE [group_id |-> matching[1].group_id, calls |-> calls]

\* the status the platform answers a PATCH of a team's binding with: a team it
\* does not know is answered 404
PatchAnswer(teams, team_slug, code) ==
    IF code \in {200, 201} /\ TargetTeamBySlug(teams, team_slug) = 0 THEN 404 ELSE code

\* a binder that returns False on a server error instead of raising
map_external_group_to_team_swallows(teams, team_slug, group_id, cache, resp) ==
    LET chk == check_team_external_group_mapping(teams, team_slug, team_slug, resp.check)
        rg  == ResolveGroupId(team_slug, group_id, cache, resp.search)
        t   == TargetTeamBySlug(teams, team_slug)
        code  == PatchAnswer(teams, team_slug, resp.patch)
        patch == [op |-> "patch_binding", arg |-> team_slug, role |-> "",
                  code |-> code, group_id |-> rg.group_id]
    IN  IF chk.is_mapped
        THEN [value |-> TRUE, raised |-> FALSE, teams |-> teams, calls |-> chk.calls]
        ELSE IF rg.group_id = 0
        THEN [value |-> FALSE, raised |-> FALSE, teams |-> teams,
              calls |-> chk.calls \o rg.calls]
        ELSE IF code \in {200, 201}
        THEN [value |-> TRUE, raised |-> FALSE,
              teams |-> [teams EXCEPT ![t].group = rg.group_id],
              calls |-> chk.calls \o rg.calls \o <<patch>>]
        ELSE [value |-> FALSE, raised |-> FALSE, teams |-> teams,
              calls |-> chk.calls \o rg.calls \o <<patch>>]

\* map_external_group_to_team (lines 426-513).  resp gives the platform's
\* answers: resp.check to the binding query, resp.search to the group search,
\* resp.patch to the PATCH.  raise_for_status (line 506) raises for a status of
\* 400 or more; a network failure raises out of the request itself.
map_external_group_to_team(teams, team_slug, group_id, cache, resp) ==
    LET chk == check_team_external_group_mapping(teams, team_slug, team_slug, resp.check)
        rg  == ResolveGroupId(team_slug, group_id, cache, resp.search)
        t   == TargetTeamBySlug(teams, team_slug)
        code  == PatchAnswer(teams, team_slug, resp.patch)
        patch == [op |-> "patch_binding", arg |-> team_slug, role |-> "",
                  code |-> code, group_id |-> rg.group_id]
    IN  IF chk.is_mapped
        THEN [value |-> TRUE, raised |-> FALSE, teams |-> teams, calls |-> chk.calls]
        ELSE IF rg.group_id = 0
        THEN [value |-> FALSE, raised |-> FALSE, teams |-> teams,
              calls |-> chk.calls \o rg.calls]
        ELSE CASE code \in {200, 201} ->
                    [value |-> TRUE, raised |-> FALSE,
                     teams |-> [teams EXCEPT ![t].group = rg.group_id],
                     calls |-> chk.calls \o rg.calls \o <<patch>>]
               [] code \in {404, 422, 403} \/ (code # 0 /\ code < 400) ->
                    [value |-> FALSE, raised |-> FALSE, teams |-> teams,
                     calls |-> chk.calls \o rg.calls \o <<patch>>]
               [] OTHER ->
                    [value |-> FALSE, raised |-> TRUE, teams |-> teams,
                     calls |-> chk.calls \o rg.calls \o <<patch>>]

\* what the platform may answer to the calls of the IDP branch
DeleteCodes == {204, 404, 403, 400, 500, 0}
PatchCodes  == {200, 201, 404, 422, 403, 500, 0}
QueryCodes  == {200, 500}
ListAnswers == {"ok", "rate", "rate2", "err"}

\* the answers to the calls of one team's IDP branch, n target-team members
IdpScenarios(n) ==
    [check : QueryCodes, members : ListAnswers, deletes : [1..n -> DeleteCodes],
     map : [check : QueryCodes, search : {200}, patch : PatchCodes]]

ScenarioFaults(f) ==
    (IF f.check # 200 THEN 1 ELSE 0) + (IF f.members # "ok" THEN 1 ELSE 0)
    + Cardinality({i \in DOMAIN f.deletes : f.deletes[i] # 204})
    + (IF f.map.check # 200 THEN 1 ELSE 0) + (IF f.map.patch # 200 THEN 1 ELSE 0)

\* an IDP branch that binds the team although the removal of its members
\* raised
IdpMappingBindsRegardless(teams, team, team_name, cache, position, f) ==
    LET gov     == Call("governor", NoName)
        first   == IF position % 10 = 0 THEN <<gov>> ELSE <<>>
        chk     == check_team_external_group_mapping(teams, team_name, team_name, f.check)
        list    == Call("get_members", team_name)
        listing == IF f.members = "ok" THEN <<list>> ELSE <<list, gov, list>>
        target_team_members == DictKeys(teams[team].members)
        rm      == IF target_team_members # <<>>
                   THEN remove_users_from_team(teams, team_name, target_team_members,
                                               f.deletes)
                   ELSE [raised |-> FALSE, teams |-> teams, calls |-> <<>>]
        group_id == DictGet(cache, Lower(team_name)).group_id
        m       == map_external_group_to_team(rm.teams, team_name, group_id, cache, f.map)
    IN  IF chk.is_mapped
        THEN [status |-> "already_mapped", teams |-> teams, calls |-> first \o chk.calls]
        ELSE IF f.members = "err"
        THEN [status |-> "failed", teams |-> teams, calls |-> first \o chk.calls \o <<list>>]
        ELSE IF f.members = "rate2"
        THEN [status |-> "failed", teams |-> teams, calls |-> first \o chk.calls \o listing]
        ELSE [status |-> IF m.value /\ ~m.raised THEN "success" ELSE "failed",
              teams |-> m.teams,
              calls |-> first \o chk.calls \o listing \o rm.calls \o m.calls]

\* Lines 782-830: the IDP branch of one team; yields idp_mapping_status
IdpMapping(teams, team, team_name, cache, position, f) ==
    LET gov     == Call("governor", NoName)
        first   == IF position % 10 = 0 THEN <<gov>> ELSE <<>>
        chk     == check_team_external_group_mapping(teams, team_name, team_name, f.check)
        list    == Call("get_members", team_name)
        listing == IF f.members = "ok" THEN <<list>> ELSE <<list, gov, list>>
        target_team_members == DictKeys(teams[team].members)
        rm      == IF target_team_members # <<>>
                   THEN remove_users_from_team(teams, team_name, target_team_members,
                                               f.deletes)
                   ELSE [raised |-> FALSE, teams |-> teams, calls |-> <<>>]
        group_id == DictGet(cache, Lower(team_name)).group_id
        m       == map_external_group_to_team(rm.teams, team_name, group_id, cache, f.map)
    IN  IF chk.is_mapped
        THEN [status |-> "already_mapped", teams |-> teams, calls |-> first \o chk.calls]
        ELSE IF f.members = "err"
        THEN [status |-> "failed", teams |-> teams, calls |-> first \o chk.calls \o <<list>>]
        ELSE IF f.members = "rate2"
        THEN [status |-> "failed", teams |-> teams, calls |-> first \o chk.calls \o listing]
        ELSE IF rm.raised
        THEN [status |-> "failed", teams |-> rm.teams,
              calls |-> first \o chk.calls \o listing \o rm.calls]
        ELSE [status |-> IF m.value /\ ~m.raised THEN "success" ELSE "failed",
              teams |-> m.teams,
              calls |-> first \o chk.calls \o listing \o rm.calls \o m.calls]

----------------------------------------------------------------------------
(* Entity Reconciler *)

\* the platform creates a team unless the slug is taken (422)
SlugTaken(teams, name) == \E i \in DOMAIN teams : teams[i].slug = Slugify(name)

NewTeam(name, description, privacy) ==
    [name |-> name, slug |-> Slugify(name), description |-> description,
     privacy |-> privacy, parent |-> NoTeam, members |-> <<>>, group |-> 0]

\* a lookup that forgets to lowercase the name
CachedTeamExact(cache, team_name) ==
    IF DictHas(cache, team_name) THEN DictGet(cache, team_name) ELSE NoTeam

\* cache.get(team_name.lower()) at line 68 (NoTeam: not cached)
CachedTeam(cache, team_name) ==
    IF DictHas(cache, Lower(team_name)) THEN DictGet(cache, Lower(team_name)) ELSE NoTeam

\* what the platform may do with the calls of create_gh_team: answer them,
\* rate limit the organization fetch or the create, or fail them
CreateAnswers == {"ok", "org_rate", "org_err", "rate", "e422", "e403", "e500"}

\* the status of the platform's answer to create_team: 201 created, 422 when
\* the slug is taken or the request is rejected, 403 permission denied, 500 a
\* server error, 429 a rate limit (RateLimitExceededException)
CreateCode(teams, team_name, answer) ==
    CASE answer = "rate" -> 429
      [] answer = "e422" -> 422
      [] answer = "e403" -> 403
      [] answer = "e500" -> 500
      [] OTHER -> IF SlugTaken(teams, team_name) THEN 422 ELSE 201

\* create_gh_team (lines 50-98).  signal is "exist" or "new" as returned,
\* "rate" when RateLimitExceededException leaves the function, "error" when
\* another exception does.
create_gh_team(teams, team_name, description, privacy, cache, answer) ==
    LET org    == Call("get_organization", NoName)
        create == [op |-> "create_team", arg |-> team_name, role |-> "",
                   code |-> CreateCode(teams, team_name, answer)]
        team   == CachedTeam(cache, team_name)
        none   == [team |-> NoTeam, teams |-> teams]
    IN  CASE answer = "org_rate" ->
               none @@ [signal |-> "rate", calls |-> <<org>>, fault |-> FALSE]
          [] answer = "org_err" ->
               none @@ [signal |-> "error", calls |-> <<org>>, fault |-> TRUE]
          [] answer \notin {"org_rate", "org_err"} /\ team # NoTeam ->
               [team |-> team, teams |-> teams, signal |-> "exist", calls |-> <<org>>,
                fault |-> FALSE]
          [] answer = "rate" /\ team = NoTeam ->
               none @@ [signal |-> "rate", calls |-> <<org, create>>, fault |-> FALSE]
          [] answer = "ok" /\ team = NoTeam /\ ~SlugTaken(teams, team_name) ->
               [team |-> Len(teams) + 1,
                teams |-> Append(teams, NewTeam(team_name, description, privacy)),
                signal |-> "new", calls |-> <<org, create>>, fault |-> FALSE]
          [] OTHER ->
               none @@ [signal |-> "error", calls |-> <<org, create>>,
                        fault |-> answer # "ok"]

----------------------------------------------------------------------------
(* Batch Scheduler: the team loop of migrate_teams_optimized *)

Min(a, b) == IF a < b THEN a ELSE b

\* a split that keeps the full batches only
ChunkFullOnly(list, size) ==
    [k \in 1..(Len(list) \div size) |->
        SubSeq(list, (k - 1) * size + 1, k * size)]

\* [list[i:i+size] for i in range(0, len(list), size)]
Chunk(list, size) ==
    [k \in 1..((Len(list) + size - 1) \div size) |->
        SubSeq(list, (k - 1) * size + 1, Min(k * size, Len(list)))]

batches == Chunk(teams_to_migrate, batch_size)

batch == batches[batch_num]

team_name == batch[index]

InTeamLoop == pc = "process" /\ batch_num <= Len(batches)

\* where the run goes once the team loop is over (line 886)
AfterTeams ==
    IF migrate_parent_child /\ parent_child_relationships # <<>> THEN "link"
    ELSE "summary"

\* a loop that consults the Governor after every batch, the last included
AdvanceGovernsLast(calls) ==
    IF index < Len(batch)
    THEN /\ index' = index + 1
         /\ batch_num' = batch_num
         /\ pc' = "process"
         /\ trace' = calls
    ELSE IF batch_num < Len(batches)
    THEN /\ index' = 1
         /\ batch_num' = batch_num + 1
         /\ pc' = "process"
         /\ trace' = Append(calls, Call("governor", NoName))
    ELSE /\ index' = index
         /\ batch_num' = batch_num
         /\ pc' = AfterTeams
         /\ trace' = Append(calls, Call("governor", NoName))

\* the loop moves to the next team; between two batches the Governor is
\* consulted (lines 881-883)
Advance(calls) ==
    IF index < Len(batch)
    THEN /\ index' = index + 1
         /\ batch_num' = batch_num
         /\ pc' = "process"
         /\ trace' = calls
    ELSE IF batch_num < Len(batches)
    THEN /\ index' = 1
         /\ batch_num' = batch_num + 1
         /\ pc' = "process"
         /\ trace' = Append(calls, Call("governor", NoName))
    ELSE /\ index' = index
         /\ batch_num' = batch_num
         /\ pc' = AfterTeams
         /\ trace' = calls

\* Lines 713-714 with no team at all
NoTeams ==
    /\ pc = "process"
    /\ batches = <<>>
    /\ pc' = AfterTeams
    /\ trace' = <<>>
    /\ UNCHANGED <<platformVars, argVars, cacheVars, statusVars, loopVars, result,
                   memberVars, fault_budget, ghostVars>>

\* a scheduler that skips a team missing from the source cache without
\* recording anything for it
ProcessTeamNotCachedSilent ==
    /\ InTeamLoop
    /\ ~DictHas(team_cache, Lower(team_name))
    /\ Advance(<<>>)
    /\ UNCHANGED <<platformVars, argVars, cacheVars, statusVars, rel_index, result,
                   memberVars, fault_budget, ghostVars>>

\* Lines 720-724: the team is not in the source cache
ProcessTeamNotCached ==
    /\ InTeamLoop
    /\ ~DictHas(team_cache, Lower(team_name))
    /\ migration_status' = DictPut(migration_status, team_name, "failed")
    /\ Advance(<<>>)
    /\ UNCHANGED <<platformVars, argVars, cacheVars, migration_details, rel_index, result,
                   memberVars, fault_budget, ghostVars>>

team_info == DictGet(team_cache, Lower(team_name))

\* line 742
idp_group_exists == map_idp_groups /\ DictHas(idp_group_cache, Lower(team_name))

\* a scheduler that queries the team's binding before it skips the team
ProcessTeamNoGroupQueries ==
    /\ InTeamLoop
    /\ DictHas(team_cache, Lower(team_name))
    /\ map_idp_groups /\ ~idp_group_exists
    /\ migration_status' = DictPut(migration_status, team_name, "skipped")
    /\ migration_details' =
         DictPut(migration_details, team_name,
                 [InitialDetails(team_name, team_info)
                     EXCEPT !.idp_mapping_status = "group_not_found"])
    /\ Advance(check_team_external_group_mapping(tgt, team_name, team_name, 200).calls)
    /\ UNCHANGED <<platformVars, argVars, cacheVars, rel_index, result,
                   memberVars, fault_budget, ghostVars>>

\* Lines 739-756: IDP mapping is on and the team has no group in the cache
ProcessTeamNoGroup ==
    /\ InTeamLoop
    /\ DictHas(team_cache, Lower(team_name))
    /\ map_idp_groups /\ ~idp_group_exists
    /\ migration_status' = DictPut(migration_status, team_name, "skipped")
    /\ migration_details' =
         DictPut(migration_details, team_name,
                 [InitialDetails(team_name, team_info)
                     EXCEPT !.idp_mapping_status = "group_not_found"])
    /\ Advance(<<>>)
    /\ UNCHANGED <<platformVars, argVars, cacheVars, rel_index, result,
                   memberVars, fault_budget, ghostVars>>

\* the team reaches create_gh_team (line 765)
Reconciles ==
    /\ InTeamLoop
    /\ DictHas(team_cache, Lower(team_name))
    /\ map_idp_groups => idp_group_exists

Reconcile(answer) ==
    create_gh_team(tgt, team_name, team_info.description, team_info.privacy,
                   target_teams_cache, answer)

\* an insertion that keys the created team by the first character of its name
CacheCreatedShortKey(cache, name, r) ==
    IF r.signal = "new"
    THEN DictPut(DictPut(cache, SubSeq(Lower(name), 1, 1), r.team),
                 Lower(r.teams[r.team].slug), r.team)
    ELSE cache

\* Lines 774-778: a newly created team enters the target cache under its
\* lowercase name and its lowercase slug
CacheCreated(cache, name, r) ==
    IF r.signal = "new"
    THEN DictPut(DictPut(cache, Lower(name), r.team),
                 Lower(r.teams[r.team].slug), r.team)
    ELSE cache

\* the bookkeeping of a call of create_gh_team
NoteCreate(r) ==
    /\ createCalls' = createCalls \cup
                      {c.arg : c \in {d \in Range(r.calls) : d.op = "create_team"}}
    /\ rejected' = rejected \cup
                   {c.arg : c \in {d \in Range(r.calls) :
                                      d.op = "create_team" /\ d.code \in {422, 403}}}
    /\ created' = IF r.signal = "new"
                  THEN [created EXCEPT ![run] = @ \cup {team_name}] ELSE created
    /\ fault_budget' = IF r.fault THEN fault_budget - 1 ELSE fault_budget
    /\ r.fault => fault_budget > 0

\* Lines 765-778 and 849-864: the team is adopted or created; neither IDP
\* mapping nor member migration is asked for
ProcessTeamPlain ==
    /\ Reconciles
    /\ ~map_idp_groups /\ ~migrate_users
    /\ \E answer \in CreateAnswers :
         LET r == Reconcile(answer)
         IN  /\ r.signal \in {"new", "exist"}
             /\ NoteCreate(r)
             /\ tgt' = r.teams
             /\ target_teams_cache' = CacheCreated(target_teams_cache, team_name, r)
             /\ migration_status' = DictPut(migration_status, team_name, "success")
             /\ migration_details' = DictPut(migration_details, team_name,
                                             InitialDetails(team_name, team_info))
             /\ Advance(r.calls)
    /\ UNCHANGED <<src, ghUsers, orgMembers, argVars, team_cache, idp_group_cache,
                   parent_child_relationships, rel_index, result, memberVars,
                   run, request, tgtAtStart, restarted, recorded, parentCalls>>

\* a scheduler that records a team whose binding failed as failed
ProcessTeamIdpStrict ==
    /\ Reconciles
    /\ map_idp_groups
    /\ \E answer \in CreateAnswers :
         LET r == Reconcile(answer)
         IN  /\ r.signal \in {"new", "exist"}
             /\ \E f \in IdpScenarios(Len(r.teams[r.team].members)) :
                  LET m == IdpMapping(r.teams, r.team, team_name, idp_group_cache, index, f)
                  IN  /\ ScenarioFaults(f) <= fault_budget
                      /\ fault_budget' = fault_budget - ScenarioFaults(f)
                      /\ tgt' = m.teams
                      /\ migration_details' =
                           DictPut(migration_details, team_name,
                                   [InitialDetails(team_name, team_info)
                                       EXCEPT !.idp_mapping_status = m.status])
                      /\ Advance(r.calls \o m.calls)
                      /\ migration_status' =
                           DictPut(migration_status, team_name,
                                   IF m.status = "failed" THEN "failed" ELSE "success")
             /\ ~r.fault
             /\ rejected' = rejected
             /\ createCalls' = createCalls \cup
                      {c.arg : c \in {d \in Range(r.calls) : d.op = "create_team"}}
             /\ created' = IF r.signal = "new"
                           THEN [created EXCEPT ![run] = @ \cup {team_name}] ELSE created
             /\ target_teams_cache' = CacheCreated(target_teams_cache, team_name, r)
    /\ UNCHANGED <<src, ghUsers, orgMembers, argVars, team_cache, idp_group_cache,
                   parent_child_relationships, rel_index, result, memberVars,
                   run, request, tgtAtStart, restarted, recorded, parentCalls>>

\* Lines 765-830 and 849-864: the team is adopted or created, then bound to
\* its IDP group
ProcessTeamIdp ==
    /\ Reconciles
    /\ map_idp_groups
    /\ \E answer \in CreateAnswers :
         LET r == Reconcile(answer)
         IN  /\ r.signal \in {"new", "exist"}
             /\ \E f \in IdpScenarios(Len(r.teams[r.team].members)) :
                  LET m == IdpMapping(r.teams, r.team, team_name, idp_group_cache, index, f)
                  IN  /\ ScenarioFaults(f) <= fault_budget
                      /\ fault_budget' = fault_budget - ScenarioFaults(f)
                      /\ tgt' = m.teams
                      /\ migration_details' =
                           DictPut(migration_details, team_name,
                                   [InitialDetails(team_name, team_info)
                                       EXCEPT !.idp_mapping_status = m.status])
                      /\ Advance(r.calls \o m.calls)
             /\ ~r.fault
             /\ rejected' = rejected
             /\ createCalls' = createCalls \cup
                      {c.arg : c \in {d \in Range(r.calls) : d.op = "create_team"}}
             /\ created' = IF r.signal = "new"
                           THEN [created EXCEPT ![run] = @ \cup {team_name}] ELSE created
             /\ target_teams_cache' = CacheCreated(target_teams_cache, team_name, r)
             /\ migration_status' = DictPut(migration_status, team_name, "success")
    /\ UNCHANGED <<src, ghUsers, orgMembers, argVars, team_cache, idp_group_cache,
                   parent_child_relationships, rel_index, result, memberVars,
                   run, request, tgtAtStart, restarted, recorded, parentCalls>>

\* a failure that leaves the team loop instead of going on with the next team
ProcessTeamFailsBreaks ==
    /\ Reconciles
    /\ \E answer \in CreateAnswers :
         LET r == Reconcile(answer)
         IN  /\ r.signal = "error"
             /\ NoteCreate(r)
             /\ migration_status' = DictPut(migration_status, team_name, "failed")
             /\ migration_details' = DictPut(migration_details, team_name,
                                             InitialDetails(team_name, team_info))
             /\ trace' = r.calls
    /\ pc' = AfterTeams
    /\ UNCHANGED <<platformVars, argVars, cacheVars, loopVars, result, memberVars,
                   run, request, tgtAtStart, restarted, recorded, parentCalls>>

\* a handler that calls create_gh_team a second time before it gives up
ProcessTeamFailsRetries ==
    /\ Reconciles
    /\ \E answer \in CreateAnswers :
         LET r == Reconcile(answer)
         IN  /\ r.signal = "error"
             /\ NoteCreate(r)
             /\ migration_status' = DictPut(migration_status, team_name, "failed")
             /\ migration_details' = DictPut(migration_details, team_name,
                                             InitialDetails(team_name, team_info))
             /\ Advance(r.calls \o r.calls)
    /\ UNCHANGED <<platformVars, argVars, cacheVars, rel_index, result, memberVars,
                   run, request, tgtAtStart, restarted, recorded, parentCalls>>

\* Lines 876-879: create_gh_team raised something other than a rate limit
ProcessTeamFails ==
    /\ Reconciles
    /\ \E answer \in CreateAnswers :
         LET r == Reconcile(answer)
         IN  /\ r.signal = "error"
             /\ NoteCreate(r)
             /\ migration_status' = DictPut(migration_status, team_name, "failed")
             /\ migration_details' = DictPut(migration_details, team_name,
                                             InitialDetails(team_name, team_info))
             /\ Advance(r.calls)
    /\ UNCHANGED <<platformVars, argVars, cacheVars, rel_index, result, memberVars,
                   run, request, tgtAtStart, restarted, recorded, parentCalls>>

\* batch[batch.index(team_name):] + [t for b in batches[batch_num:] for t in b]
remaining_teams ==
    Suffix(batch, IndexOf(batch, team_name))
        \o Flatten(Suffix(batches, batch_num + 1))

RECURSIVE DictUpdate(_, _)
DictUpdate(d, e) ==
    IF e = <<>> THEN d ELSE DictUpdate(DictPut(d, Head(e)[1], Head(e)[2]), Tail(e))

\* Lines 866-874: create_gh_team raised a rate limit: wait, then call the
\* function again with the remaining teams
ProcessTeamRateLimited ==
    /\ Reconciles
    /\ \E answer \in CreateAnswers :
         LET r == Reconcile(answer)
         IN  /\ r.signal = "rate"
             /\ NoteCreate(r)
             /\ trace' = r.calls \o << Call("governor", NoName), Call("restart", NoName) >>
    /\ teams_to_migrate' = remaining_teams
    /\ FreshLocalsNext
    /\ pc' = "fetch_source"
    /\ restarted' = TRUE
    /\ recorded' = DictUpdate(recorded, migration_status)
    /\ UNCHANGED <<platformVars, flagVars, result, memberVars,
                   run, request, tgtAtStart, parentCalls>>

----------------------------------------------------------------------------
(* Membership Synchronizer *)

\* gh_client.get_user: the platform resolves logins without regard to case and
\* answers with the account's own login (NoName: no such user)
ResolveUser(login) ==
    IF \E u \in ghUsers : Lower(u) = Lower(login)
    THEN CHOOSE u \in ghUsers : Lower(u) = Lower(login)
    ELSE NoName

\* validate_user (lines 1-11): the user's login, or NoName for None; any
\* error is answered with None
validate_user(username, answer) ==
    IF answer = "ok" THEN ResolveUser(username) ELSE NoName

\* the organization fetch of user_exists_in_org and the status it is answered
\* with (429: RateLimitExceededException)
OrgFetch(code) == [op |-> "get_organization", arg |-> NoName, role |-> "", code |-> code]

\* user_exists_in_org answering True once its attempts are exhausted
user_exists_in_org_exhausted(username, s) ==
    LET validated_username == validate_user(username, s.user)
        user == Call("get_user", username)
        org(code) == OrgFetch(code)
        gov  == Call("governor", NoName)
        list == Call("org_get_members", NoName)
        found == \E m \in orgMembers : m = validated_username
    IN  IF username = NoName THEN [value |-> FALSE, calls |-> <<>>]
        ELSE IF validated_username = NoName THEN [value |-> FALSE, calls |-> <<user>>]
        ELSE CASE s.org = "ok" ->
                    [value |-> s.list = "ok" /\ found, calls |-> <<user, org(200), list>>]
               [] s.org = "rate" ->
                    [value |-> s.list = "ok" /\ found,
                     calls |-> <<user, org(429), gov, org(200), list>>]
               [] s.org = "rate2" ->
                    [value |-> TRUE, calls |-> <<user, org(429), gov, org(429), gov>>]
               [] s.org = "rate_err" ->
                    [value |-> FALSE, calls |-> <<user, org(429), gov, org(500)>>]
               [] OTHER ->
                    [value |-> FALSE, calls |-> <<user, org(500)>>]

\* user_exists_in_org without the membership test
user_exists_in_org_unchecked(username, s) ==
    LET validated_username == validate_user(username, s.user)
        user == Call("get_user", username)
        org(code) == OrgFetch(code)
        gov  == Call("governor", NoName)
        list == Call("org_get_members", NoName)
    IN  IF username = NoName THEN [value |-> FALSE, calls |-> <<>>]
        ELSE IF validated_username = NoName THEN [value |-> FALSE, calls |-> <<user>>]
        ELSE CASE s.org = "ok" ->
                    [value |-> s.list = "ok", calls |-> <<user, org(200), list>>]
               [] s.org = "rate" ->
                    [value |-> s.list = "ok", calls |-> <<user, org(429), gov, org(200), list>>]
               [] s.org = "rate2" ->
                    [value |-> FALSE, calls |-> <<user, org(429), gov, org(429), gov>>]
               [] s.org = "rate_err" ->
                    [value |-> FALSE, calls |-> <<user, org(429), gov, org(500)>>]
               [] OTHER ->
                    [value |-> FALSE, calls |-> <<user, org(500)>>]

\* user_exists_in_org with a third attempt
user_exists_in_org_thrice(username, s) ==
    LET validated_username == validate_user(username, s.user)
        user == Call("get_user", username)
        org(code) == OrgFetch(code)
        gov  == Call("governor", NoName)
        list == Call("org_get_members", NoName)
        found == \E m \in orgMembers : m = validated_username
    IN  IF username = NoName THEN [value |-> FALSE, calls |-> <<>>]
        ELSE IF validated_username = NoName THEN [value |-> FALSE, calls |-> <<user>>]
        ELSE CASE s.org = "ok" ->
                    [value |-> s.list = "ok" /\ found, calls |-> <<user, org(200), list>>]
               [] s.org = "rate" ->
                    [value |-> s.list = "ok" /\ found,
                     calls |-> <<user, org(429), gov, org(200), list>>]
               [] s.org = "rate2" ->
                    [value |-> FALSE, calls |-> <<user, org(429), gov, org(429), gov, org(429), gov>>]
               [] s.org = "rate_err" ->
                    [value |-> FALSE, calls |-> <<user, org(429), gov, org(500)>>]
               [] OTHER ->
                    [value |-> FALSE, calls |-> <<user, org(500)>>]

\* user_exists_in_org (lines 13-48).  s.user answers get_user; s.org answers
\* get_organization: "ok", "rate" (rate limited once), "rate2" (rate limited
\* twice), "err", "rate_err" (rate limited, then another error); s.list
\* answers get_members.
user_exists_in_org(username, s) ==
    LET validated_username == validate_user(username, s.user)
        user == Call("get_user", username)
        org(code) == OrgFetch(code)
        gov  == Call("governor", NoName)
        list == Call("org_get_members", NoName)
        found == \E m \in orgMembers : m = validated_username
    IN  IF username = NoName THEN [value |-> FALSE, calls |-> <<>>]
        ELSE IF validated_username = NoName THEN [value |-> FALSE, calls |-> <<user>>]
        ELSE CASE s.org = "ok" ->
                    [value |-> s.list = "ok" /\ found, calls |-> <<user, org(200), list>>]
               [] s.org = "rate" ->
                    [value |-> s.list = "ok" /\ found,
                     calls |-> <<user, org(429), gov, org(200), list>>]
               [] s.org = "rate2" ->
                    [value |-> FALSE, calls |-> <<user, org(429), gov, org(429), gov>>]
               [] s.org = "rate_err" ->
                    [value |-> FALSE, calls |-> <<user, org(429), gov, org(500)>>]
               [] OTHER ->
                    [value |-> FALSE, calls |-> <<user, org(500)>>]

\* every member copied as a plain member
SourceRoleMember(team, login) == "member"

\* line 176: 'maintainer' if the source role is maintainer, else 'member'
SourceRole(team, login) ==
    IF login \in src[team].maintainers THEN "maintainer" ELSE "member"

\* a call of migrate_team_members on the source or the target team and the
\* status it is answered with (429: RateLimitExceededException)
MemberCall(op, arg, role, code) == [op |-> op, arg |-> arg, role |-> role, code |-> code]

AddCall(login, role, code) == MemberCall("add_membership", login, role, code)

\* the platform upserts a member of a target team under the account's login
AddMembership(teams, t, login, role) ==
    [teams EXCEPT ![t].members = DictPut(@, ResolveUser(login), role)]

\* the answers the platform may give during one member's iteration
MemberScenarios ==
    [user : {"ok", "err"}, org : {"ok", "rate", "rate2", "err", "rate_err"},
     list : {"ok", "err"}, role : {"ok", "rate", "rate2", "err"},
     add : {"ok", "rate", "rate_attr", "rate2", "err"}]

MemberFaults(s) ==
    Cardinality({k \in {"user", "org", "list", "role", "add"} : s[k] # "ok"})

\* an iteration that tries a rate-limited upsert a third time
MemberIterationTriesThrice(teams, team, target, login, s) ==
    LET exists   == user_exists_in_org(login, s)
        role     == SourceRole(team, login)
        get_role(code) == MemberCall("get_team_membership", login, "", code)
        gov      == Call("governor", NoName)
        add(code) == AddCall(login, role, code)
        roleCalls == CASE s.role = "ok" -> <<get_role(200)>>
                       [] s.role = "err" -> <<get_role(500)>>
                       [] s.role = "rate" -> <<get_role(429), get_role(200)>>
                       [] OTHER -> <<get_role(429), get_role(429)>>
        addCalls  == CASE s.add = "ok" -> <<add(200)>>
                       [] s.add = "err" -> <<add(500)>>
                       [] s.add = "rate_attr" -> <<add(429)>>
                       [] s.add = "rate" -> <<add(429), gov, add(200)>>
                       [] OTHER -> <<add(429), gov, add(429), gov, add(429)>>
    IN  IF ~exists.value
        THEN [outcome |-> "skipped", role |-> "", teams |-> teams, calls |-> exists.calls]
        ELSE IF s.role \in {"rate2", "err"}
        THEN [outcome |-> "failed", role |-> "", teams |-> teams,
              calls |-> exists.calls \o roleCalls]
        ELSE IF s.add \in {"rate2", "err", "rate_attr"}
        THEN [outcome |-> "failed", role |-> "", teams |-> teams,
              calls |-> exists.calls \o roleCalls \o addCalls]
        ELSE [outcome |-> "success", role |-> role,
              teams |-> AddMembership(teams, target, login, role),
              calls |-> exists.calls \o roleCalls \o addCalls]

\* Lines 158-215: one iteration of the member loop.  outcome is "skipped",
\* "success" or "failed".
MemberIteration(teams, team, target, login, s) ==
    LET exists   == user_exists_in_org(login, s)
        role     == SourceRole(team, login)
        get_role(code) == MemberCall("get_team_membership", login, "", code)
        gov      == Call("governor", NoName)
        add(code) == AddCall(login, role, code)
        roleCalls == CASE s.role = "ok" -> <<get_role(200)>>
                       [] s.role = "err" -> <<get_role(500)>>
                       [] s.role = "rate" -> <<get_role(429), get_role(200)>>
                       [] OTHER -> <<get_role(429), get_role(429)>>
        addCalls  == CASE s.add = "ok" -> <<add(200)>>
                       [] s.add = "err" -> <<add(500)>>
                       [] s.add = "rate_attr" -> <<add(429)>>
                       [] s.add = "rate" -> <<add(429), gov, add(200)>>
                       [] OTHER -> <<add(429), gov, add(429)>>
    IN  IF ~exists.value
        THEN [outcome |-> "skipped", role |-> "", teams |-> teams, calls |-> exists.calls]
        ELSE IF s.role \in {"rate2", "err"}
        THEN [outcome |-> "failed", role |-> "", teams |-> teams,
              calls |-> exists.calls \o roleCalls]
        ELSE IF s.add \in {"rate2", "err", "rate_attr"}
        THEN [outcome |-> "failed", role |-> "", teams |-> teams,
              calls |-> exists.calls \o roleCalls \o addCalls]
        ELSE [outcome |-> "success", role |-> role,
              teams |-> AddMembership(teams, target, login, role),
              calls |-> exists.calls \o roleCalls \o addCalls]

\* Lines 146-156: the source team's members are listed (one retry after a
\* rate limit)
MembersListed ==
    /\ pc = "members_list"
    /\ \E answer \in {"ok", "rate"} :
         /\ answer # "ok" => fault_budget > 0
         /\ fault_budget' = IF answer = "ok" THEN fault_budget ELSE fault_budget - 1
         /\ trace' = IF answer = "ok"
                     THEN << MemberCall("get_members", src[source_team].slug, "", 200) >>
                     ELSE << MemberCall("get_members", src[source_team].slug, "", 429),
                             MemberCall("get_members", src[source_team].slug, "", 200) >>
    /\ source_members' = src[source_team].members
    /\ member_index' = 1
    /\ pc' = "members"
    /\ UNCHANGED <<platformVars, argVars, cacheVars, statusVars, loopVars, result,
                   source_team, target_team, users_status, member_details,
                   members_migrated, members_failed, member_results, team_details,
                   ghostVars>>

\* Lines 225-244: the listing fails (a second rate limit, or another error):
\* the function returns a failure with no member counted
MembersListFails ==
    /\ pc = "members_list"
    /\ fault_budget > 0
    /\ fault_budget' = fault_budget - 1
    /\ \E answer \in {"rate2", "err"} :
         /\ trace' = IF answer = "err"
                     THEN << MemberCall("get_members", src[source_team].slug, "", 500) >>
                     ELSE << MemberCall("get_members", src[source_team].slug, "", 429),
                             MemberCall("get_members", src[source_team].slug, "", 429) >>
         /\ member_results' =
              [success |-> FALSE, total_members |-> 0,
               members_migrated |-> members_migrated, members_failed |-> members_failed,
               member_details |-> Append(member_details, <<NoName, "Error", answer>>)]
    /\ pc' = "members_done"
    /\ UNCHANGED <<platformVars, argVars, cacheVars, statusVars, loopVars, result,
                   source_team, target_team, source_members, member_index, users_status,
                   member_details, members_migrated, members_failed, team_details,
                   ghostVars>>

\* a member loop that does not count a skipped member as failed
MemberStepSkipUncounted ==
    /\ pc = "members"
    /\ member_index <= Len(source_members)
    /\ \E s \in MemberScenarios :
         LET login == source_members[member_index]
             it    == MemberIteration(tgt, source_team, target_team, login, s)
         IN  /\ MemberFaults(s) <= fault_budget
             /\ fault_budget' = fault_budget - MemberFaults(s)
             /\ tgt' = it.teams
             /\ users_status' = DictPut(users_status, login,
                                        [status |-> it.outcome, role |-> it.role])
             /\ members_migrated' = members_migrated + (IF it.outcome = "success" THEN 1 ELSE 0)
             /\ members_failed' = members_failed + (IF it.outcome = "failed" THEN 1 ELSE 0)
             /\ member_details' = Append(member_details, <<login, it.outcome, it.role>>)
             /\ trace' = it.calls
    /\ member_index' = member_index + 1
    /\ UNCHANGED <<src, ghUsers, orgMembers, argVars, cacheVars, statusVars, loopVars,
                   result, pc, source_team, target_team, source_members, member_results,
                   team_details, ghostVars>>

\* Lines 158-215: the next source member is processed
MemberStep ==
    /\ pc = "members"
    /\ member_index <= Len(source_members)
    /\ \E s \in MemberScenarios :
         LET login == source_members[member_index]
             it    == MemberIteration(tgt, source_team, target_team, login, s)
         IN  /\ MemberFaults(s) <= fault_budget
             /\ fault_budget' = fault_budget - MemberFaults(s)
             /\ tgt' = it.teams
             /\ users_status' = DictPut(users_status, login,
                                        [status |-> it.outcome, role |-> it.role])
             /\ members_migrated' = members_migrated + (IF it.outcome = "success" THEN 1 ELSE 0)
             /\ members_failed' = members_failed + (IF it.outcome = "success" THEN 0 ELSE 1)
             /\ member_details' = Append(member_details, <<login, it.outcome, it.role>>)
             /\ trace' = it.calls
    /\ member_index' = member_index + 1
    /\ UNCHANGED <<src, ghUsers, orgMembers, argVars, cacheVars, statusVars, loopVars,
                   result, pc, source_team, target_team, source_members, member_results,
                   team_details, ghostVars>>

\* a return that reports success whatever happened to the members
MembersReturnAlwaysSucceeds ==
    /\ pc = "members"
    /\ member_index > Len(source_members)
    /\ member_results' =
         [success |-> TRUE, total_members |-> Len(source_members),
          members_migrated |-> members_migrated, members_failed |-> members_failed,
          member_details |-> member_details]
    /\ pc' = "members_done"
    /\ trace' = <<>>
    /\ UNCHANGED <<platformVars, argVars, cacheVars, statusVars, loopVars, result,
                   source_team, target_team, source_members, member_index, users_status,
                   member_details, members_migrated, members_failed, team_details,
                   fault_budget, ghostVars>>

\* Lines 217-223: every member was processed
MembersReturn ==
    /\ pc = "members"
    /\ member_index > Len(source_members)
    /\ member_results' =
         [success |-> members_failed = 0, total_members |-> Len(source_members),
          members_migrated |-> members_migrated, members_failed |-> members_failed,
          member_details |-> member_details]
    /\ pc' = "members_done"
    /\ trace' = <<>>
    /\ UNCHANGED <<platformVars, argVars, cacheVars, statusVars, loopVars, result,
                   source_team, target_team, source_members, member_index, users_status,
                   member_details, members_migrated, members_failed, team_details,
                   fault_budget, ghostVars>>

\* Lines 765-778 and 832-839: the team is adopted or created and
\* migrate_team_members is called for it
ProcessTeamMembers ==
    /\ Reconciles
    /\ migrate_users /\ ~map_idp_groups
    /\ \E answer \in CreateAnswers :
         LET r == Reconcile(answer)
         IN  /\ r.signal \in {"new", "exist"}
             /\ NoteCreate(r)
             /\ tgt' = r.teams
             /\ target_teams_cache' = CacheCreated(target_teams_cache, team_name, r)
             /\ target_team' = r.team
             /\ trace' = IF index % 5 = 0 THEN Append(r.calls, Call("governor", NoName))
                         ELSE r.calls
    /\ source_team' = SourceTeamBySlug(team_info.team_obj)
    /\ team_details' = InitialDetails(team_name, team_info)
    /\ source_members' = <<>>
    /\ member_index' = 1
    /\ users_status' = <<>>
    /\ member_details' = <<>>
    /\ members_migrated' = 0
    /\ members_failed' = 0
    /\ pc' = "members_list"
    /\ UNCHANGED <<src, ghUsers, orgMembers, argVars, team_cache, idp_group_cache,
                   parent_child_relationships, statusVars, loopVars, result,
                   member_results, run, request, tgtAtStart, restarted, recorded,
                   parentCalls>>

\* Lines 839-850 and 864: migrate_team_members returned
TeamMembersDone ==
    /\ pc = "members_done"
    /\ migration_status' =
         DictPut(migration_status, team_name,
                 IF member_results.success THEN "success" ELSE "partial_success")
    /\ migration_details' =
         DictPut(migration_details, team_name,
                 [team_details EXCEPT
                     !.total_members = member_results.total_members,
                     !.members_migrated = member_results.members_migrated,
                     !.members_failed = member_results.members_failed,
                     !.member_details = member_results.member_details])
    /\ Advance(<<>>)
    /\ FreshMemberLocalsNext
    /\ UNCHANGED <<platformVars, argVars, cacheVars, rel_index, result,
                   fault_budget, ghostVars>>

----------------------------------------------------------------------------
(* Parent links, summary, return *)

\* get_team_by_name (lines 123-137): the first target team with exactly this
\* name; None when there is none or the listing fails
get_team_by_name(teams, name, answer) ==
    IF answer = "ok" /\ \E i \in DOMAIN teams : teams[i].name = name
    THEN CHOOSE i \in DOMAIN teams :
             teams[i].name = name /\ \A j \in 1..(i - 1) : teams[j].name # name
    ELSE NoTeam

\* set_team_parent (lines 100-121): the platform's teams after the call; a
\* failing edit (or a missing handle) changes nothing
set_team_parent(teams, team, parent_team, answer) ==
    IF answer = "ok" /\ team # NoTeam /\ parent_team # NoTeam
    THEN [teams EXCEPT ![team].parent = parent_team]
    ELSE teams

\* a test that lets every child through unless it is recorded failed
ChildNotFailed(status, child) ==
    ~DictHas(status, child) \/ DictGet(status, child) # "failed"

\* line 896
ChildMigrated(status, child) ==
    DictHas(status, child) /\ DictGet(status, child) \in {"success", "exists"}

\* the link attempted as soon as one of the two handles was found
EitherFound(team, parent_team) == team # NoTeam \/ parent_team # NoTeam

\* line 913
BothFound(team, parent_team) == team # NoTeam /\ parent_team # NoTeam

\* Lines 895-920: one (child, parent) pair of the parent-link loop.  answer
\* gives the platform's answers to the two lookups by name and to the edit.
LinkStep ==
    /\ pc = "link"
    /\ rel_index <= Len(parent_child_relationships)
    /\ \E answer \in [child : {"ok", "err"}, parent : {"ok", "err"}, edit : {"ok", "err"}] :
         LET child   == parent_child_relationships[rel_index][1]
             parent  == parent_child_relationships[rel_index][2]
             n       == Cardinality({k \in {"child", "parent", "edit"} : answer[k] # "ok"})
             cached1 == CachedTeam(target_teams_cache, child)
             team    == IF cached1 # NoTeam THEN cached1
                        ELSE get_team_by_name(tgt, child, answer.child)
             cache1  == IF cached1 = NoTeam /\ team # NoTeam
                        THEN DictPut(target_teams_cache, Lower(child), team)
                        ELSE target_teams_cache
             cached2 == CachedTeam(cache1, parent)
             parent_team == IF cached2 # NoTeam THEN cached2
                            ELSE get_team_by_name(tgt, parent, answer.parent)
             cache2  == IF cached2 = NoTeam /\ parent_team # NoTeam
                        THEN DictPut(cache1, Lower(parent), parent_team)
                        ELSE cache1
             lookups == (IF cached1 = NoTeam THEN << Call("get_team_by_name", child) >>
                         ELSE <<>>)
                        \o (IF cached2 = NoTeam THEN << Call("get_team_by_name", parent) >>
                            ELSE <<>>)
             last    == rel_index = Len(parent_child_relationships)
             between == rel_index % link_batch_size = 0 /\ ~last
             gov     == IF between THEN << Call("governor", NoName) >> ELSE <<>>
         IN  /\ n <= fault_budget
             /\ fault_budget' = fault_budget - n
             /\ IF ~ChildMigrated(migration_status, child)
                THEN /\ trace' = gov
                     /\ UNCHANGED <<tgt, target_teams_cache, parentCalls>>
                ELSE /\ target_teams_cache' = cache2
                     /\ IF BothFound(team, parent_team)
                        THEN /\ tgt' = set_team_parent(tgt, team, parent_team, answer.edit)
                             /\ parentCalls' = Append(parentCalls, <<team, parent_team>>)
                             /\ trace' = lookups \o << Call("set_team_parent", child) >> \o gov
                        ELSE /\ trace' = lookups \o gov
                             /\ UNCHANGED <<tgt, parentCalls>>
    /\ rel_index' = rel_index + 1
    /\ pc' = IF rel_index = Len(parent_child_relationships) THEN "summary" ELSE "link"
    /\ UNCHANGED <<src, ghUsers, orgMembers, argVars, team_cache, idp_group_cache,
                   parent_child_relationships, statusVars, batch_num, index, result,
                   memberVars, run, request, tgtAtStart, restarted, recorded, created,
                   createCalls, rejected>>

\* lines 923-924: the lists handed to write_migration_summary
successful_migrations ==
    SelectSeq(DictKeys(migration_status),
              LAMBDA t : DictGet(migration_status, t) \in {"success", "exists"})

failed_migrations ==
    SelectSeq(DictKeys(migration_status),
              LAMBDA t : DictGet(migration_status, t) \notin {"success", "exists"})

\* line 934
ReturnValue(status) ==
    IF \A v \in ValueSet(status) : v \in {"success", "exists"} THEN "True" ELSE "False"

\* Lines 922-934: the summary is written and the run returns
Finish ==
    /\ pc = "summary"
    /\ result' = ReturnValue(migration_status)
    /\ pc' = "done"
    /\ trace' = << Call("write_migration_summary", NoName) >>
    /\ UNCHANGED <<platformVars, argVars, cacheVars, statusVars, loopVars, memberVars,
                   fault_budget, ghostVars>>

\* the orchestrator is run again on the same source and target, with the
\* arguments of the first run
SecondRun ==
    /\ pc = "done"
    /\ run = 1
    /\ run' = 2
    /\ teams_to_migrate' = request
    /\ FreshLocalsNext
    /\ pc' = "fetch_source"
    /\ result' = "none"
    /\ trace' = <<>>
    /\ restarted' = FALSE
    /\ recorded' = <<>>
    /\ createCalls' = {}
    /\ rejected' = {}
    /\ parentCalls' = <<>>
    /\ tgtAtStart' = Len(tgt)
    /\ UNCHANGED <<platformVars, flagVars, memberVars, fault_budget, request, created>>

----------------------------------------------------------------------------
(* The orchestrator *)

Init ==
    /\ \E h \in Hierarchies : src = SourceOrg(h)
    /\ tgt \in TargetOrgs
    /\ ghUsers = {uU, uV}
    /\ orgMembers = {uU}
    /\ request \in Requests
    /\ teams_to_migrate = request
    /\ migrate_users \in BOOLEAN
    /\ map_idp_groups \in BOOLEAN
    /\ migrate_parent_child \in BOOLEAN
    /\ FreshLocals
    /\ FreshMemberLocals
    /\ source_team = 0
    /\ target_team = NoTeam
    /\ pc = "fetch_source"
    /\ result = "none"
    /\ trace = <<>>
    /\ fault_budget = MaxFaults
    /\ run = 1
    /\ tgtAtStart = Len(tgt)
    /\ restarted = FALSE
    /\ recorded = <<>>
    /\ created = [r \in {1, 2} |-> {}]
    /\ createCalls = {}
    /\ rejected = {}
    /\ parentCalls = <<>>

Next ==
    \/ FetchNamedTeams
    \/ ListSourceTeams
    \/ ListSourceRateLimited
    \/ ListSourceFails
    \/ FetchTargetTeams
    \/ FetchTargetRateLimited
    \/ FetchTargetFails
    \/ Prepare
    \/ NoTeams
    \/ ProcessTeamNotCached
    \/ ProcessTeamNoGroup
    \/ ProcessTeamPlain
    \/ ProcessTeamIdp
    \/ ProcessTeamMembers
    \/ ProcessTeamFails
    \/ ProcessTeamRateLimited
    \/ MembersListed
    \/ MembersListFails
    \/ MemberStep
    \/ MembersReturn
    \/ TeamMembersDone
    \/ LinkStep
    \/ Finish
    \/ SecondRun

Spec == Init /\ [][Next]_vars

\* the run always takes its next step: the program is one thread that waits
\* only inside the Governor, which returns
FairSpec == Spec /\ WF_vars(Next)

----------------------------------------------------------------------------
(* migrate_team_members on its own: one source team, one target team *)

\* failures injected during one call of migrate_team_members
MaxMemberFaults == 2

uUpper == <<"U">>

\* member lists of the source team, in listing order
MemberLists == { <<uU, uV>>, <<uUpper, uV>>, <<uV>> }

InitMembers ==
    /\ \E ml \in MemberLists : \E ms \in SUBSET Range(ml) :
         src = << [name |-> nA, slug |-> na, description |-> "None",
                   privacy |-> "closed", parent |-> NoName,
                   members |-> ml, maintainers |-> ms] >>
    /\ \E existing \in { <<>>, << <<uU, "member">> >> } :
         tgt = << TargetTeam(nA, existing, 0) >>
    /\ ghUsers \in SUBSET {uU, uV}
    /\ orgMembers \in SUBSET ghUsers
    /\ request = <<na>>
    /\ teams_to_migrate = request
    /\ migrate_users = TRUE
    /\ map_idp_groups = FALSE
    /\ migrate_parent_child = FALSE
    /\ FreshLocals
    /\ FreshMemberLocals
    /\ source_team = 1
    /\ target_team = 1
    /\ pc = "members_list"
    /\ result = "none"
    /\ trace = <<>>
    /\ fault_budget = MaxMemberFaults
    /\ run = 1
    /\ tgtAtStart = Len(tgt)
    /\ restarted = FALSE
    /\ recorded = <<>>
    /\ created = [r \in {1, 2} |-> {}]
    /\ createCalls = {}
    /\ rejected = {}
    /\ parentCalls = <<>>

NextMembers ==
    \/ MembersListed
    \/ MembersListFails
    \/ MemberStep
    \/ MembersReturn

SpecMembers == InitMembers /\ [][NextMembers]_vars

----------------------------------------------------------------------------
(* Properties: idempotence, restart, failure isolation, return value *)

PastFetch == pc \notin {"fetch_source", "fetch_target", "raised"}

C1_CacheComplete ==
    PastFetch =>
        \A i \in DOMAIN tgt :
            /\ CachedTeam(target_teams_cache, tgt[i].name) = i
            /\ CachedTeam(target_teams_cache, tgt[i].slug) = i

C1_NoCreateForExisting ==
    \A n \in createCalls :
        /\ \A i \in 1..tgtAtStart :
               Lower(tgt[i].name) # Lower(n) /\ Lower(tgt[i].slug) # Lower(n)
        /\ run = 2 => \A m \in created[1] : Lower(m) # Lower(n)

C1_NoDuplicate ==
    \A i, j \in DOMAIN tgt :
        i # j => Lower(tgt[i].name) # Lower(tgt[j].name) /\ tgt[i].slug # tgt[j].slug

C1_CreateOnlyUncached ==
    \A k \in DOMAIN trace' :
        trace'[k].op = "create_team" =>
            ~DictHas(target_teams_cache, Lower(trace'[k].arg))

\* C1: create_team is never called for a name whose lowercase form is a key of
\* the target cache; once the target teams are fetched, every target team,
\* the ones created in this run included, is cached under its lowercase name
\* and its lowercase slug; so no run issues a create call for a team the
\* target held when the run started (the second run none for a team the first
\* run created), and the target never holds two teams of the same name.
C1_Idempotent ==
    /\ [](C1_CacheComplete /\ C1_NoCreateForExisting /\ C1_NoDuplicate)
    /\ [][C1_CreateOnlyUncached]_vars

\* the second run returned, after a first run that created two teams, without
\* a single create call
C1_Witness ==
    /\ run = 2 /\ pc = "done"
    /\ Cardinality(created[1]) >= 2
    /\ createCalls = {}

\* C2: at the end of the second run every team the first run created has
\* migration status "exists".
C2_SecondRunReportsExists ==
    (run = 2 /\ pc = "done") =>
        \A n \in created[1] :
            DictHas(migration_status, n) => DictGet(migration_status, n) = "exists"

\* C3: the status recorded for a team before a rate-limit restart is still in
\* the status map, unchanged, when the run returns.
C3_RecordedPreserved ==
    pc = "done" =>
        \A t \in KeySet(recorded) :
            /\ DictHas(migration_status, t)
            /\ DictGet(migration_status, t) = DictGet(recorded, t)

\* C4: under fair scheduling every run ends: it returns or raises.  The three
\* restart points re-enter the function with no attempt counter, and the
\* model takes the call stack as unbounded, as the program sets no limit on
\* it (an interpreter's recursion limit would end such a run with an uncaught
\* RecursionError, not by abandoning the operation).
C4_RunTerminates == <>(pc \in {"done", "raised"})

\* the step writes "failed" for the team at the loop's position
FailsNow ==
    /\ InTeamLoop
    /\ migration_status' # migration_status
    /\ DictHas(migration_status', team_name)
    /\ DictGet(migration_status', team_name) = "failed"

\* the loop's position moves to the next team, or the loop is over
LoopGoesOn ==
    /\ teams_to_migrate' = teams_to_migrate
    /\ \/ pc' = "process" /\ batch_num' = batch_num /\ index' = index + 1
          /\ index < Len(batch)
       \/ pc' = "process" /\ batch_num' = batch_num + 1 /\ index' = 1
          /\ index = Len(batch) /\ batch_num < Len(batches)
       \/ pc' \in {"link", "summary"}
          /\ index = Len(batch) /\ batch_num = Len(batches)

C5_FailureIsLocal ==
    FailsNow =>
        /\ KeySet(migration_status') = KeySet(migration_status) \cup {team_name}
        /\ \A t \in KeySet(migration_status) \ {team_name} :
               DictGet(migration_status', t) = DictGet(migration_status, t)
        /\ LoopGoesOn

C5_EveryTeamHasStatus ==
    pc \in {"link", "summary", "done"} =>
        \A t \in Range(teams_to_migrate) : DictHas(migration_status, t)

\* C5: a step of the team loop that records a team "failed" changes no other
\* team's status and moves the loop to the next team; when the loop is over
\* every team of the list has a status.
C5_FailureIsolated ==
    /\ []C5_EveryTeamHasStatus
    /\ [][C5_FailureIsLocal]_vars

\* a run without restart returned with a failed team followed by a migrated one
C5_Witness ==
    /\ pc = "done" /\ ~restarted
    /\ \E i, j \in DOMAIN teams_to_migrate :
         /\ i < j
         /\ DictGet(migration_status, teams_to_migrate[i]) = "failed"
         /\ DictGet(migration_status, teams_to_migrate[j]) \in {"success", "partial_success"}
         /\ DictHas(migration_details, teams_to_migrate[i])

\* every status written during the run, restarted invocations included
AllStatuses == DictUpdate(recorded, migration_status)

\* C6: the run returns true exactly when every team of the run, the ones
\* processed before a restart included, reached "success" or "exists".
C6_ReturnReflectsAll ==
    pc = "done" =>
        (result = "True" <=> \A v \in ValueSet(AllStatuses) : v \in {"success", "exists"})

----------------------------------------------------------------------------
(* Properties of migrate_team_members *)

\* the user resolves on the platform and is a member of the target organization
Confirmed(login) == ResolveUser(login) # NoName /\ ResolveUser(login) \in orgMembers

\* C7: add_membership is called for a user only after, in the same iteration,
\* get_user resolved the user and the organization's member list was fetched,
\* and only for a user who is a member of the target organization.
C7_AddOnlyConfirmed ==
    \A i \in DOMAIN trace :
        trace[i].op = "add_membership" =>
            /\ \E j \in 1..(i - 1) : trace[j].op = "get_user" /\ trace[j].arg = trace[i].arg
            /\ \E j \in 1..(i - 1) : trace[j].op = "org_get_members"
            /\ Confirmed(trace[i].arg)

\* a member was just added to the target team
C7_Witness ==
    /\ pc = "members"
    /\ \E i \in DOMAIN trace : trace[i].op = "add_membership"
    /\ \E k \in DOMAIN users_status : users_status[k][2].status = "success"

ExpectedRole(login) ==
    IF login \in src[source_team].maintainers THEN "maintainer" ELSE "member"

\* C9: the role passed to add_membership, the role recorded for a migrated
\* member and the role the member holds in the target team afterwards are
\* "maintainer" exactly when the member is a maintainer of the source team.
C9_RolePreserved ==
    /\ \A i \in DOMAIN trace :
           trace[i].op = "add_membership" => trace[i].role = ExpectedRole(trace[i].arg)
    /\ \A k \in DOMAIN users_status :
           LET login == users_status[k][1]
           IN  users_status[k][2].status = "success" =>
                 /\ users_status[k][2].role = ExpectedRole(login)
                 /\ DictHas(tgt[target_team].members, ResolveUser(login))
                 /\ DictGet(tgt[target_team].members, ResolveUser(login)) = ExpectedRole(login)

\* a maintainer and a plain member were both migrated
C9_Witness ==
    /\ \E k \in DOMAIN users_status :
         users_status[k][2].status = "success" /\ users_status[k][2].role = "maintainer"
    /\ \E k \in DOMAIN users_status :
         users_status[k][2].status = "success" /\ users_status[k][2].role = "member"

----------------------------------------------------------------------------
(* Properties of the parent-link phase *)

\* C10: set_team_parent is called only with a child handle and a parent
\* handle that both denote teams of the target organization, and no target
\* team's parent is a team the target does not hold.
C10_ParentLinkNeedsBoth ==
    /\ \A k \in DOMAIN parentCalls :
           parentCalls[k][1] \in DOMAIN tgt /\ parentCalls[k][2] \in DOMAIN tgt
    /\ \A i \in DOMAIN tgt :
           tgt[i].parent # NoTeam => tgt[i].parent \in DOMAIN tgt

\* a parent link was set
C10_Witness ==
    /\ parentCalls # <<>>
    /\ \E i \in DOMAIN tgt : tgt[i].parent # NoTeam /\ tgt[i].parent # i

----------------------------------------------------------------------------
(* Properties of the hierarchy: parent links and the Dependency Resolver *)

\* the (child, parent) slug pairs of the source organization
SourceRelationships ==
    {<<src[i].slug, src[i].parent>> : i \in {j \in DOMAIN src : src[j].parent # NoName}}

\* the target team that stands for the source team of this slug (NoTeam: none)
TargetOf(n) ==
    IF \E i \in DOMAIN tgt : Lower(tgt[i].name) = Lower(n) \/ tgt[i].slug = Lower(n)
    THEN CHOOSE i \in DOMAIN tgt : Lower(tgt[i].name) = Lower(n) \/ tgt[i].slug = Lower(n)
    ELSE NoTeam

\* the team was created or adopted in the target during the run: an invocation
\* of the run recorded it with a status of the branch that holds a handle
Reconciled(n) ==
    /\ DictHas(AllStatuses, n)
    /\ DictGet(AllStatuses, n) \in {"success", "partial_success", "exists"}
    /\ TargetOf(n) # NoTeam

\* C11: when a run with migrate_parent_child returns and no platform call
\* failed other than by a rate limit, every source (child, parent) pair whose
\* two teams were created or adopted during the run is linked in the target:
\* the child's parent is the parent's target team.
C11_ParentsLinked ==
    (pc = "done" /\ migrate_parent_child /\ fault_budget = MaxFaults) =>
        \A r \in SourceRelationships :
            (Reconciled(r[1]) /\ Reconciled(r[2])) =>
                tgt[TargetOf(r[1])].parent = TargetOf(r[2])

----------------------------------------------------------------------------
(* The Dependency Resolver on its own: lines 694-703 applied to a source   *)
(* cache whose teams may name any parent, cycles included                  *)

\* the slugs of the cached teams, in each insertion order
ResolverOrders ==
    { <<na, nb, nab>>, <<na, nab, nb>>, <<nb, na, nab>>,
      <<nb, nab, na>>, <<nab, na, nb>>, <<nab, nb, na>> }

\* the parent a cached team may name: none, a cached team (itself included) or
\* a team that is not cached
ResolverParents == {NoName, na, nb, nab, nzz}

InitResolver ==
    /\ \E o \in ResolverOrders : \E p \in [1..3 -> ResolverParents] :
         src = [i \in 1..3 |->
                  [name |-> o[i], slug |-> o[i], description |-> "None",
                   privacy |-> "closed", parent |-> p[i], members |-> <<>>,
                   maintainers |-> {}]]
    /\ tgt = <<>>
    /\ ghUsers = {}
    /\ orgMembers = {}
    /\ request = <<>>
    /\ migrate_users = FALSE
    /\ map_idp_groups = FALSE
    /\ migrate_parent_child = TRUE
    /\ team_cache = CacheAll(src, <<>>)
    /\ teams_to_migrate = DictKeys(team_cache)
    /\ migration_status = <<>>
    /\ migration_details = <<>>
    /\ target_teams_cache = <<>>
    /\ idp_group_cache = <<>>
    /\ parent_child_relationships = <<>>
    /\ batch_num = 1
    /\ index = 1
    /\ rel_index = 1
    /\ FreshMemberLocals
    /\ source_team = 0
    /\ target_team = NoTeam
    /\ pc = "prepare"
    /\ result = "none"
    /\ trace = <<>>
    /\ fault_budget = 0
    /\ run = 1
    /\ tgtAtStart = 0
    /\ restarted = FALSE
    /\ recorded = <<>>
    /\ created = [r \in {1, 2} |-> {}]
    /\ createCalls = {}
    /\ rejected = {}
    /\ parentCalls = <<>>

NextResolver == Prepare

SpecResolver == InitResolver /\ [][NextResolver]_vars

\* the team reached from t by k steps from child to parent inside the cache
\* (NoName when the chain leaves the cache earlier)
RECURSIVE Climb(_, _)
Climb(t, k) ==
    IF k = 0 THEN t
    ELSE IF DictHas(team_cache, t) /\ DictHas(team_cache, DictGet(team_cache, t).parent)
         THEN Climb(DictGet(team_cache, t).parent, k - 1)
         ELSE NoName

\* t is on a cycle of the relationships or descends from one
InCycle(t) == Climb(t, Len(team_cache)) # NoName

Acyclic == \A t \in KeySet(team_cache) : ~InCycle(t)

\* t is the child or the parent of some relationship
Involved(t) == \E r \in Range(parent_child_relationships) : r[1] = t \/ r[2] = t

Resolved == pc = "process"

\* the order holds every cached team exactly once
IsTotalOrder ==
    /\ Len(teams_to_migrate) = Len(team_cache)
    /\ Range(teams_to_migrate) = KeySet(team_cache)

\* C12: for an acyclic set of relationships the resolver's order holds every
\* team once, places every parent before each of its children, and keeps the
\* teams that are in no relationship in their relative input order.
C12_ParentsFirst ==
    (Resolved /\ Acyclic) =>
        /\ IsTotalOrder
        /\ \A r \in Range(parent_child_relationships) :
               DictHas(team_cache, r[2]) =>
                   IndexOf(teams_to_migrate, r[2]) < IndexOf(teams_to_migrate, r[1])
        /\ \A t, u \in KeySet(team_cache) :
               (~Involved(t) /\ ~Involved(u)
                  /\ IndexOf(DictKeys(team_cache), t) < IndexOf(DictKeys(team_cache), u))
               => IndexOf(teams_to_migrate, t) < IndexOf(teams_to_migrate, u)

\* an acyclic hierarchy whose input order had a child before its parent: the
\* resolver changed the order
C12_Witness ==
    /\ Resolved /\ Acyclic
    /\ teams_to_migrate # DictKeys(team_cache)
    /\ \E r \in Range(parent_child_relationships) :
         /\ DictHas(team_cache, r[2])
         /\ IndexOf(DictKeys(team_cache), r[1]) < IndexOf(DictKeys(team_cache), r[2])

\* C13: for a cyclic set of relationships the resolver returns an order that
\* holds every team exactly once, and the teams of the cycle (and the teams
\* below them) come in their original relative order.
C13_CycleBroken ==
    (Resolved /\ ~Acyclic) =>
        /\ IsTotalOrder
        /\ \A t, u \in KeySet(team_cache) :
               (InCycle(t) /\ InCycle(u)
                  /\ IndexOf(DictKeys(team_cache), t) < IndexOf(DictKeys(team_cache), u))
               => IndexOf(teams_to_migrate, t) < IndexOf(teams_to_migrate, u)

\* a cycle of two teams was broken after a free team was emitted
C13_Witness ==
    /\ Resolved /\ ~Acyclic
    /\ Cardinality({t \in KeySet(team_cache) : InCycle(t)}) = 2
    /\ \E t \in KeySet(team_cache) : ~InCycle(t)

----------------------------------------------------------------------------
(* Properties of the Identity Mapping Binder and of the Reconciler's errors *)

\* the binding of the target team of this slug matches the expected name:
\* equal or containing it, without regard to case
BoundAsExpected(teams, team_slug, expected) ==
    LET t == TargetTeamBySlug(teams, team_slug)
    IN  /\ t # 0
        /\ teams[t].group # 0
        /\ IsInfix(Lower(expected), Lower(GroupById(teams[t].group).group_name))

\* the step processes the team at the loop's position to the end of the loop
\* body and records its details
TeamProcessed ==
    /\ InTeamLoop
    /\ teams_to_migrate' = teams_to_migrate
    /\ <<pc', batch_num', index'>> # <<pc, batch_num, index>>
    /\ DictHas(migration_details', team_name)
    /\ DictGet(migration_status', team_name) # "failed"

Mutates(calls) ==
    \E k \in DOMAIN calls : calls[k].op \in {"patch_binding", "delete_membership"}

\* C14: whenever a team whose binding matches the expected group, and whose
\* name is in the IDP group cache, is processed with IDP mapping on, no PATCH
\* and no DELETE is issued and the team's idp_mapping_status is
\* "already_mapped".
C14_BoundTeamUntouched ==
    [][(map_idp_groups /\ idp_group_exists /\ TeamProcessed
          /\ BoundAsExpected(tgt, team_name, team_name)) =>
          /\ ~Mutates(trace')
          /\ DictGet(migration_details', team_name).idp_mapping_status = "already_mapped"
      ]_vars

\* what holds of such a team: when no platform call of the step fails, no
\* PATCH and no DELETE is issued and the target is left as it was; the status
\* is "already_mapped" if the IDP group cache holds the team's name and
\* "group_not_found" otherwise.
BoundTeamUntouchedUnlessFault ==
    [][(map_idp_groups /\ TeamProcessed /\ BoundAsExpected(tgt, team_name, team_name)
          /\ fault_budget' = fault_budget) =>
          /\ ~Mutates(trace')
          /\ tgt' = tgt
          /\ DictGet(migration_details', team_name).idp_mapping_status =
                IF idp_group_exists THEN "already_mapped" ELSE "group_not_found"
      ]_vars

\* a team bound to a group whose name only contains the team's name was
\* reported "already_mapped"
BoundTeamReported ==
    /\ DictHas(migration_details, na)
    /\ DictGet(migration_details, na).idp_mapping_status = "already_mapped"
    /\ TargetTeamBySlug(tgt, na) # 0
    /\ tgt[TargetTeamBySlug(tgt, na)].group = 12

----------------------------------------------------------------------------
(* map_external_group_to_team on its own: one call for one team slug *)

\* target organizations of the call: the team of slug a unbound, bound to the
\* group A, bound to the group "a b"; and a team of slug b
BinderTargets ==
    { << TargetTeam(nA, <<>>, 0), TargetTeam(nb, <<>>, 0) >>,
      << TargetTeam(nA, <<>>, 11), TargetTeam(nb, <<>>, 12) >>,
      << TargetTeam(nA, <<>>, 12) >> }

\* team_slug as passed by the caller
BinderSlugs == {na, nA, nb, nab, nzz}

\* statuses the platform may answer the PATCH and the search with (0: network
\* failure)
BinderPatchCodes == PatchCodes \cup {400, 502}

BinderResponses ==
    [check : QueryCodes, search : QueryCodes, patch : BinderPatchCodes]

InitBinder ==
    /\ src = <<>>
    /\ tgt \in BinderTargets
    /\ ghUsers = {}
    /\ orgMembers = {}
    /\ request = <<>>
    /\ \E s \in BinderSlugs : teams_to_migrate = <<s>>
    /\ migrate_users = FALSE
    /\ map_idp_groups = TRUE
    /\ migrate_parent_child = FALSE
    /\ team_cache = <<>>
    /\ migration_status = <<>>
    /\ migration_details = <<>>
    /\ target_teams_cache = <<>>
    /\ idp_group_cache \in {<<>>, CacheGroups(ExternalGroups, <<>>)}
    /\ parent_child_relationships = <<>>
    /\ batch_num = 1
    /\ index = 1
    /\ rel_index = 1
    /\ FreshMemberLocals
    /\ source_team = 0
    /\ target_team = NoTeam
    /\ pc = "bind"
    /\ result = "none"
    /\ trace = <<>>
    /\ fault_budget = 0
    /\ run = 1
    /\ tgtAtStart = Len(tgt)
    /\ restarted = FALSE
    /\ recorded = <<>>
    /\ created = [r \in {1, 2} |-> {}]
    /\ createCalls = {}
    /\ rejected = {}
    /\ parentCalls = <<>>

\* the call returns True or False, or an exception leaves it
Returned(m) == IF m.raised THEN "raised" ELSE IF m.value THEN "True" ELSE "False"

\* map_external_group_to_team(org, team_slug, token, group_id, idp_group_cache)
BindById ==
    /\ pc = "bind"
    /\ \E group_id \in {11, 12} : \E resp \in BinderResponses :
         LET m == map_external_group_to_team(tgt, team_name, group_id, idp_group_cache, resp)
         IN  /\ tgt' = m.teams
             /\ trace' = m.calls
             /\ result' = Returned(m)
    /\ pc' = "bound_by_id"
    /\ UNCHANGED <<src, ghUsers, orgMembers, argVars, cacheVars, statusVars, loopVars,
                   memberVars, fault_budget, ghostVars>>

\* the same call with group_id left None
BindBySlug ==
    /\ pc = "bind"
    /\ \E resp \in BinderResponses :
         LET m == map_external_group_to_team(tgt, team_name, 0, idp_group_cache, resp)
         IN  /\ tgt' = m.teams
             /\ trace' = m.calls
             /\ result' = Returned(m)
    /\ pc' = "bound_by_slug"
    /\ UNCHANGED <<src, ghUsers, orgMembers, argVars, cacheVars, statusVars, loopVars,
                   memberVars, fault_budget, ghostVars>>

NextBinder == BindById \/ BindBySlug

SpecBinder == InitBinder /\ [][NextBinder]_vars

Patches == SelectSeq(trace, LAMBDA c : c.op = "patch_binding")

Searches == SelectSeq(trace, LAMBDA c : c.op = "search_groups")

\* C15: a call of map_external_group_to_team issues at most one PATCH, and the
\* PATCH's status decides the outcome: 200 or 201 returns True; 404, 422 or
\* 403 returns False; a status of 500 or more, or a network failure, raises.
C15_PatchPolicy ==
    pc \in {"bound_by_id", "bound_by_slug"} =>
        /\ Len(Patches) <= 1
        /\ \A k \in DOMAIN Patches :
             LET code == Patches[k].code
             IN  /\ code \in {200, 201} => result = "True"
                 /\ code \in {404, 422, 403} => result = "False"
                 /\ (code = 0 \/ code >= 500) => result = "raised"

\* a PATCH answered with a server error raised out of the call
C15_Witness ==
    /\ pc = "bound_by_id"
    /\ Len(Patches) = 1
    /\ Patches[1].code = 502
    /\ result = "raised"

\* the groups of the search's answer whose name equals the slug or contains it
SearchMatches(team_slug) ==
    SelectSeq(SearchGroups(team_slug),
              LAMBDA g : IsInfix(Lower(team_slug), Lower(g.group_name)))

\* C16: when no group id is supplied and the search is answered, the group
\* bound is the first group of the answer whose name equals the team slug or
\* contains it, and the call fails without a PATCH only when no group of the
\* answer matches.
C16_SearchExactOrSubstring ==
    (pc = "bound_by_slug" /\ Len(Searches) = 1 /\ Searches[1].code = 200) =>
        IF SearchMatches(team_name) = <<>>
        THEN Patches = <<>> /\ result = "False"
        ELSE Len(Patches) = 1 /\ Patches[1].group_id = SearchMatches(team_name)[1].group_id

\* what the code does: the group bound is the first group of the answer whose
\* name equals the team slug without regard to case
SearchBindsExactMatch ==
    (pc = "bound_by_slug" /\ Len(Searches) = 1 /\ Searches[1].code = 200) =>
        LET exact == SelectSeq(SearchGroups(team_name),
                               LAMBDA g : Lower(g.group_name) = Lower(team_name))
        IN  IF exact = <<>>
            THEN Patches = <<>> /\ result = "False"
            ELSE Len(Patches) = 1 /\ Patches[1].group_id = exact[1].group_id

----------------------------------------------------------------------------
(* Properties of the Reconciler's error handling *)

\* the create_team calls of the step
CreatesNext == SelectSeq(trace', LAMBDA c : c.op = "create_team")

\* no two entries of the list name the same team
NoRepeat(list) ==
    \A i, j \in DOMAIN list : i # j => Lower(list[i]) # Lower(list[j])

\* C17 as claimed: once create_team was answered 422 or 403 for a team, the
\* team is recorded failed and create_team is not called for it again in the
\* run.
C17_RejectedNeverCreatedAgain ==
    [][\A k \in DOMAIN CreatesNext :
          /\ CreatesNext[k].arg \notin rejected
          /\ CreatesNext[k].code \in {422, 403} =>
                DictGet(migration_status', team_name) = "failed"
      ]_vars

C17_RejectedStep ==
    (\E k \in DOMAIN CreatesNext : CreatesNext[k].code \in {422, 403}) =>
        /\ Len(CreatesNext) = 1
        /\ migration_status' = DictPut(migration_status, team_name, "failed")
        /\ LoopGoesOn

C17_NoCreateForRejected ==
    (NoRepeat(request) \/ migrate_parent_child) =>
        \A k \in DOMAIN CreatesNext : CreatesNext[k].arg \notin rejected

\* C17, amended: the step in which create_team is answered 422 or 403 calls
\* create_team once, records the team failed and moves to the next entry of
\* the list; and create_team is not called again for that team in the run
\* unless the list names the team more than once.
C17_RejectedNotRetried ==
    /\ [][C17_RejectedStep]_vars
    /\ [][C17_NoCreateForRejected]_vars

\* a run returned in which a team was rejected and recorded failed and a later
\* team was migrated
C17_Witness ==
    /\ pc = "done"
    /\ \E i, j \in DOMAIN teams_to_migrate :
         /\ i < j
         /\ teams_to_migrate[i] \in rejected
         /\ DictGet(migration_status, teams_to_migrate[i]) = "failed"
         /\ DictGet(migration_status, teams_to_migrate[j]) = "success"

\* C18: a step in which create_team fails with a rate limit or with a status
\* other than 422 and 403 does not record the team failed: the run restarts
\* with the remaining teams, the failed team first.
C18_TransientCreateRetried ==
    [][(\E k \in DOMAIN CreatesNext : CreatesNext[k].code \notin {201, 422, 403}) =>
          /\ pc' = "fetch_source"
          /\ teams_to_migrate' = remaining_teams
          /\ Head(teams_to_migrate') = team_name
          /\ ~DictHas(migration_status', team_name)
      ]_vars

\* what the code does on a rate limit only
RateLimitedCreateRetried ==
    [][(\E k \in DOMAIN CreatesNext : CreatesNext[k].code = 429) =>
          /\ pc' = "fetch_source"
          /\ teams_to_migrate' = remaining_teams
          /\ Head(teams_to_migrate') = team_name
          /\ ~DictHas(migration_status', team_name)
      ]_vars

----------------------------------------------------------------------------
(* Properties of the target cache *)

\* the invocation keeps its cache in this step (a restart and a second run
\* start from an empty one)
SameInvocation == ~(pc' = "fetch_source" /\ target_teams_cache' = <<>>)

C19_KeysKeepTheirTeam ==
    SameInvocation =>
        \A k \in KeySet(target_teams_cache) :
            /\ DictHas(target_teams_cache', k)
            /\ DictGet(target_teams_cache', k) = DictGet(target_teams_cache, k)

\* C19: once the target teams are fetched every fetched team is cached under
\* its name and under its slug, and no step of the run (creating a team, the
\* parent-link lookup) gives a key of the target cache another team.
C19_FetchedNeverOverwritten ==
    /\ []C1_CacheComplete
    /\ [][C19_KeysKeepTheirTeam]_vars

\* the cache holds a team fetched from the target and a team created in the
\* run, and the parent links were gone through
C19_Witness ==
    /\ pc = "done"
    /\ migrate_parent_child /\ parent_child_relationships # <<>>
    /\ \E k \in KeySet(target_teams_cache) : DictGet(target_teams_cache, k) <= tgtAtStart
    /\ \E k \in KeySet(target_teams_cache) : DictGet(target_teams_cache, k) > tgtAtStart

----------------------------------------------------------------------------
(* Properties of the aggregate result of migrate_team_members *)

C20_SuccessMeansNoneFailed ==
    (pc = "members_done" /\ member_results.success) =>
        /\ member_results.members_failed = 0
        /\ \A k \in DOMAIN users_status : users_status[k][2].status = "success"
        /\ member_results.members_migrated = member_results.total_members

C20_TeamStatusFromAggregate ==
    pc = "members_done" =>
        /\ migration_status' =
             DictPut(migration_status, team_name,
                     IF member_results.success THEN "success" ELSE "partial_success")
        /\ LoopGoesOn

\* C20: the aggregate result of migrate_team_members reports success only if
\* no member failed or was skipped; the scheduler then records the team
\* "success", and "partial_success" otherwise, never "failed", and goes on
\* with the next team.
C20_PartialIsNotFailure ==
    /\ []C20_SuccessMeansNoneFailed
    /\ [][C20_TeamStatusFromAggregate]_vars

\* a run returned with one team recorded "success" after its members were
\* migrated and another recorded "partial_success"
C20_Witness ==
    /\ pc = "done" /\ migrate_users /\ ~map_idp_groups
    /\ \E t \in KeySet(migration_status) :
         /\ DictGet(migration_status, t) = "success"
         /\ DictGet(migration_details, t).members_migrated > 0
    /\ \E t \in KeySet(migration_status) : DictGet(migration_status, t) = "partial_success"

----------------------------------------------------------------------------
(* Properties of the status ledger *)

\* no two entries of the list are the same name
DuplicateFree(list) == \A i, j \in DOMAIN list : i # j => list[i] # list[j]

\* the statuses the scheduler writes (lines 723, 753, 840, 850, 854, 862, 878)
FinalStatuses == {"success", "exists", "partial_success", "skipped", "failed"}

\* a step of one invocation either leaves the ledger alone or appends the
\* status of the team at the loop's position, which had none
C21_WrittenOnce ==
    (SameInvocation /\ DuplicateFree(teams_to_migrate)) =>
        \/ migration_status' = migration_status
        \/ /\ InTeamLoop \/ pc = "members_done"
           /\ ~DictHas(migration_status, team_name)
           /\ \E v \in FinalStatuses :
                migration_status' = Append(migration_status, <<team_name, v>>)

\* when the team loop is over the ledger holds the teams of the list, once
\* each and in the order of the list
C21_AllFinal ==
    (pc \in {"link", "summary", "done"} /\ DuplicateFree(teams_to_migrate)) =>
        /\ DictKeys(migration_status) = teams_to_migrate
        /\ ValueSet(migration_status) \subseteq FinalStatuses

\* C21: within one invocation over a duplicate-free list every team's status
\* is written exactly once, to one of success, exists, partial_success,
\* skipped and failed, and never changed afterwards; when the invocation is
\* through its team loop every team of the list has its status.
C21_StatusFinalizedOnce ==
    /\ []C21_AllFinal
    /\ [][C21_WrittenOnce]_vars

\* a run returned over a duplicate-free list of three teams that ended with
\* three different statuses or at least two
C21_Witness ==
    /\ pc = "done"
    /\ DuplicateFree(teams_to_migrate) /\ Len(teams_to_migrate) = 3
    /\ Cardinality(ValueSet(migration_status)) >= 2

----------------------------------------------------------------------------
(* Properties of the Reconciler's lookup *)

\* the calls create_gh_team issued in the step
ReconcilerCalls ==
    SelectSeq(trace', LAMBDA c : c.op \in {"get_organization", "create_team"})

\* the team at the loop's position reaches create_gh_team and is in the
\* target cache
ReconcilesCached ==
    Reconciles /\ CachedTeam(target_teams_cache, team_name) # NoTeam

\* C22: when the team's lowercase name is in the target cache create_gh_team
\* issues no network call, neither an organization fetch nor a create.
C22_CachedNoNetwork ==
    [][ReconcilesCached => ReconcilerCalls = <<>>]_vars

\* what the code does: it fetches the organization and creates nothing
CachedFetchesOrganizationOnly ==
    [][ReconcilesCached =>
          /\ ReconcilerCalls = << Call("get_organization", NoName) >>
          /\ Len(tgt') = Len(tgt)
      ]_vars

----------------------------------------------------------------------------
(* Properties of the restart of the fetch *)

\* the positions of the step's calls at which a listing of teams was rate
\* limited
RateLimitedListings ==
    {k \in DOMAIN trace' : trace'[k].op = "get_teams" /\ trace'[k].code = 429}

\* the locals of the invocation the step leaves behind are those of lines
\* 584-587, 655, 673 and 695
StartsAfresh ==
    /\ pc' = "fetch_source"
    /\ team_cache' = <<>> /\ target_teams_cache' = <<>> /\ idp_group_cache' = <<>>
    /\ parent_child_relationships' = <<>>
    /\ migration_status' = <<>> /\ migration_details' = <<>>
    /\ <<migrate_users, map_idp_groups, migrate_parent_child>>' =
           <<migrate_users, map_idp_groups, migrate_parent_child>>

C23_ListingStep ==
    \A k \in RateLimitedListings :
        /\ pc \in {"fetch_source", "fetch_target"}
        /\ Len(trace') = k + 2
        /\ trace'[k + 1] = Call("governor", NoName)
        /\ trace'[k + 2] = Call("restart", NoName)
        /\ StartsAfresh
        /\ teams_to_migrate' = teams_to_migrate

\* the source cache holds exactly what the fetch of this invocation put in it
C23_CacheFromThisFetch ==
    (pc = "fetch_target" /\ restarted) =>
        /\ KeySet(team_cache) \subseteq {src[i].slug : i \in DOMAIN src}
        /\ \A i \in DOMAIN src :
              DictHas(team_cache, src[i].slug) =>
                  /\ DictGet(team_cache, src[i].slug) = TeamInfo(src[i])
                  /\ \E n \in Range(teams_to_migrate) : Lower(n) = src[i].slug
        /\ target_teams_cache = <<>>

\* C23: when the listing of the source teams or of the target teams is rate
\* limited, the Governor is invoked and then the function is called again
\* with every cache empty: the restarted fetch builds its caches from the
\* platform alone.
C23_FetchRestartsFromEmpty ==
    /\ [][C23_ListingStep]_vars
    /\ []C23_CacheFromThisFetch

\* an unfiltered run has fetched its source teams, was rate limited listing
\* the target teams and starts again with empty caches
C23_Witness ==
    /\ pc = "fetch_source" /\ restarted
    /\ request = <<>> /\ teams_to_migrate # <<>>
    /\ Len(trace) = 4 /\ trace[2] = Listing(429)
    /\ team_cache = <<>>

----------------------------------------------------------------------------
(* Properties of the Governor between batches *)

\* the number of calls at the end of the list that are calls of the Governor
RECURSIVE TrailingGovernor(_)
TrailingGovernor(calls) ==
    IF calls = <<>> \/ calls[Len(calls)] # Call("governor", NoName) THEN 0
    ELSE 1 + TrailingGovernor(SubSeq(calls, 1, Len(calls) - 1))

\* the step finishes the iteration of the team at the loop's position
EndsTeam ==
    /\ InTeamLoop \/ pc = "members_done"
    /\ pc' \in {"process", "link", "summary"}

\* the finished team is the last one of a batch that is not the last batch
BetweenBatches == index = Len(batch) /\ batch_num < Len(batches)

C24_TeamBatches ==
    EndsTeam =>
        /\ TrailingGovernor(trace') = (IF BetweenBatches THEN 1 ELSE 0)
        /\ BetweenBatches => batch_num' = batch_num + 1 /\ index' = 1

\* parent_child_relationships[i:i+50]: the pair is the last one of a batch
\* of pairs that is not the last batch
BetweenLinkBatches ==
    /\ rel_index % link_batch_size = 0
    /\ rel_index < Len(parent_child_relationships)

C24_LinkBatches ==
    pc = "link" =>
        TrailingGovernor(trace') = (IF BetweenLinkBatches THEN 1 ELSE 0)

\* C24: between two consecutive batches of the team loop and of the
\* parent-link loop the Governor is invoked exactly once, whatever the
\* platform answered before, and it is not invoked after the last batch.
C24_GovernorBetweenBatches ==
    /\ [][C24_TeamBatches]_vars
    /\ [][C24_LinkBatches]_vars

\* the run went through two batches of teams and is between two batches of
\* parent links, the Governor having just been invoked
C24_Witness ==
    /\ pc = "link" /\ rel_index = 2
    /\ Len(batches) = 2
    /\ TrailingGovernor(trace) = 1

----------------------------------------------------------------------------
(* Properties of the restart of the team loop *)

\* the step leaves the team loop for a new invocation (lines 866-874)
RestartsFromTeam == InTeamLoop /\ pc' = "fetch_source"

\* (batch_num-1)*batch_size + index: the position of the current team in
\* the ordered list (line 717)
position == (batch_num - 1) * batch_size + index

\* C25: when a rate limit surfaces while the team at position k is
\* processed, the list handed to the restarted processing is the suffix of
\* the ordered list that starts at position k.
C25_RestartWithSuffix ==
    [][RestartsFromTeam =>
          /\ Suffix(teams_to_migrate, position)[1] = team_name
          /\ teams_to_migrate' = Suffix(teams_to_migrate, position)
      ]_vars

\* what the code does: the suffix is handed over when no team is named twice
\* in the list
RestartWithSuffixIfDistinct ==
    [][(RestartsFromTeam /\ DuplicateFree(teams_to_migrate)) =>
          teams_to_migrate' = Suffix(teams_to_migrate, position)
      ]_vars

\* a rate limit surfaced at a position other than the first
RestartedPastFirst ==
    /\ pc = "fetch_source" /\ restarted
    /\ Len(trace) >= 2 /\ trace[Len(trace)] = Call("restart", NoName)
    /\ Len(teams_to_migrate) < Len(request)

----------------------------------------------------------------------------
(* Properties of the retries of migrate_team_members *)

\* the calls migrate_team_members retries after a rate limit (lines 150,
\* 176, 185)
RetriedOps == {"get_members", "get_team_membership", "add_membership"}

\* positions i < j of the step's calls such that call i was rate limited and
\* call j is the same call made again
Retries(ops) ==
    {p \in (DOMAIN trace') \X (DOMAIN trace') :
        /\ p[1] < p[2]
        /\ trace'[p[1]].op \in ops
        /\ trace'[p[1]].code = 429
        /\ trace'[p[2]].op = trace'[p[1]].op
        /\ trace'[p[2]].arg = trace'[p[1]].arg}

\* the Governor is called between the two calls
GovernedBetween(p) ==
    \E k \in DOMAIN trace' :
        p[1] < k /\ k < p[2] /\ trace'[k] = Call("governor", NoName)

InMembers == pc \in {"members_list", "members"}

C26_AllGoverned ==
    InMembers => \A p \in Retries(RetriedOps) : GovernedBetween(p)

\* C26: in migrate_team_members every retry after a rate limit (of the
\* member listing, of the role fetch, of the upsert) comes after a call of
\* the Governor made between the failed call and the retry.
C26_RetryAfterGovernor == [][C26_AllGoverned]_vars

UpsertGoverned ==
    InMembers =>
        /\ \A p \in Retries({"add_membership"}) : GovernedBetween(p)
        /\ \A p \in Retries({"get_members", "get_team_membership"}) : p[2] = p[1] + 1

\* what the code does: only the retry of the upsert comes after the Governor
UpsertRetryAfterGovernor == [][UpsertGoverned]_vars

\* a member was added by the retry of a rate-limited upsert
UpsertRetried ==
    /\ pc = "members"
    /\ \E i \in DOMAIN trace : \E j \in DOMAIN trace :
         /\ i < j /\ trace[i].op = "add_membership" /\ trace[i].code = 429
         /\ trace[j].op = "add_membership" /\ trace[j].code = 200
    /\ users_status # <<>>
    /\ users_status[Len(users_status)][2].status = "success"

----------------------------------------------------------------------------
(* Properties of the member loop's error handling *)

\* the step's calls of one operation for the member at the loop's position
CallsOf(op) == SelectSeq(trace', LAMBDA c : c.op = op)

\* the call was made at most twice, the second time only after a rate limit
AtMostOneRetry(op) ==
    /\ Len(CallsOf(op)) <= 2
    /\ Len(CallsOf(op)) = 2 => CallsOf(op)[1].code = 429

\* the call and its retry were both rate limited
RateLimitedTwice(op) ==
    Len(CallsOf(op)) = 2 /\ CallsOf(op)[1].code = 429 /\ CallsOf(op)[2].code = 429

\* lines 200-207: the member is recorded failed and the loop goes on
MemberRecordedFailed ==
    LET login == source_members[member_index]
    IN  /\ users_status' = DictPut(users_status, login, [status |-> "failed", role |-> ""])
        /\ members_failed' = members_failed + 1
        /\ members_migrated' = members_migrated
        /\ pc' = "members"
        /\ member_index' = member_index + 1
        /\ source_members' = source_members

C27_MemberStep ==
    (pc = "members" /\ member_index <= Len(source_members)) =>
        \A op \in {"get_team_membership", "add_membership"} :
            /\ AtMostOneRetry(op)
            /\ RateLimitedTwice(op) => MemberRecordedFailed

\* C27: in migrate_team_members a rate-limited role fetch or upsert is
\* retried at most once; when the retry is rate limited too the member is
\* recorded failed, the error stays inside migrate_team_members and the loop
\* goes on with the next source member.
C27_RetryOnceThenFailed == [][C27_MemberStep]_vars

\* a member's upsert and its retry were rate limited, the member is recorded
\* failed and the loop stands at the next member
C27_Witness ==
    /\ pc = "members" /\ member_index = 2 /\ Len(source_members) = 2
    /\ Len(SelectSeq(trace, LAMBDA c : c.op = "add_membership" /\ c.code = 429)) = 2
    /\ users_status[1][2].status = "failed"

----------------------------------------------------------------------------
(* Properties of the membership probe *)

\* every rate-limited organization fetch of the step is followed by a call
\* of the Governor (line 42)
GovernorAfterRateLimitedFetch ==
    \A i \in DOMAIN trace' :
        (trace'[i].op = "get_organization" /\ trace'[i].code = 429) =>
            /\ i < Len(trace')
            /\ trace'[i + 1] = Call("governor", NoName)

\* lines 164-170: the member is recorded skipped and nothing is added
MemberRecordedSkipped ==
    LET login == source_members[member_index]
    IN  /\ users_status' = DictPut(users_status, login, [status |-> "skipped", role |-> ""])
        /\ CallsOf("add_membership") = <<>>
        /\ tgt' = tgt
        /\ pc' = "members"
        /\ member_index' = member_index + 1

C28_ProbeStep ==
    (pc = "members" /\ member_index <= Len(source_members)) =>
        /\ AtMostOneRetry("get_organization")
        /\ GovernorAfterRateLimitedFetch
        /\ RateLimitedTwice("get_organization") => MemberRecordedSkipped

\* C28: user_exists_in_org fetches the organization at most twice per call:
\* after a rate-limited fetch it invokes the Governor and fetches once more,
\* and when the second fetch is rate limited too it returns false, so that
\* the member is treated as not in the organization, without a further fetch
\* and without raising.
C28_ProbeBounded == [][C28_ProbeStep]_vars

\* a member of the target organization was reported as not a member after
\* two rate-limited organization fetches
C28_Witness ==
    /\ pc = "members" /\ member_index > 1
    /\ Len(SelectSeq(trace, LAMBDA c : c.op = "get_organization")) = 2
    /\ \A i \in DOMAIN trace : trace[i].op = "get_organization" => trace[i].code = 429
    /\ Confirmed(source_members[member_index - 1])
    /\ DictGet(users_status, source_members[member_index - 1]).status = "skipped"

----------------------------------------------------------------------------
(* remove_users_from_team on its own: one team, a list of usernames *)

\* longest list of usernames handed to remove_users_from_team
MaxUsers == 3

uBlank == <<" ">>

uPadded == <<" ", "v">>

\* the usernames of the list: two plain logins, a blank one, a padded one
RemoverNames == {uU, uW, uBlank, uPadded}

RemoverLists == UNION {[1..n -> RemoverNames] : n \in 0..MaxUsers}

InitRemover ==
    /\ src = <<>>
    /\ tgt = << TargetTeam(nA, << <<uU, "member">>, <<uV, "maintainer">> >>, 0) >>
    /\ ghUsers = {}
    /\ orgMembers = {}
    /\ request = <<>>
    /\ teams_to_migrate = <<na>>
    /\ migrate_users = FALSE
    /\ map_idp_groups = TRUE
    /\ migrate_parent_child = FALSE
    /\ FreshLocals
    /\ FreshMemberLocals
    /\ source_team = 0
    /\ target_team = NoTeam
    /\ pc = "remove"
    /\ result = "none"
    /\ trace = <<>>
    /\ fault_budget = 0
    /\ run = 1
    /\ tgtAtStart = Len(tgt)
    /\ restarted = FALSE
    /\ recorded = <<>>
    /\ created = [r \in {1, 2} |-> {}]
    /\ createCalls = {}
    /\ rejected = {}
    /\ parentCalls = <<>>

\* remove_users_from_team(org, team_slug, token, users): the step's calls are
\* the call itself, with its arguments and what it returned, and the DELETEs
\* it issued
RemoveUsersCall ==
    /\ pc = "remove"
    /\ \E users \in RemoverLists : \E codes \in [DOMAIN users -> DeleteCodes] :
         LET rm == remove_users_from_team(tgt, team_name, users, codes)
         IN  /\ tgt' = rm.teams
             /\ trace' = << [op |-> "remove_users_from_team", arg |-> users, role |-> "",
                             success_count |-> rm.success_count,
                             failed_count |-> rm.failed_count,
                             details |-> rm.details] >> \o rm.calls
             /\ result' = IF rm.raised THEN "raised" ELSE "returned"
    /\ pc' = "removed"
    /\ UNCHANGED <<src, ghUsers, orgMembers, argVars, cacheVars, statusVars, loopVars,
                   memberVars, fault_budget, ghostVars>>

NextRemover == RemoveUsersCall

SpecRemover == InitRemover /\ [][NextRemover]_vars

\* the usernames a DELETE is due for: the given ones, stripped, blank ones
\* left out
NonBlank(users) ==
    SelectSeq([i \in DOMAIN users |-> Strip(users[i])], LAMBDA u : u # NoName)

\* status of a DELETE that raises: 500 or more, or no answer at all
Raises(code) == code = 0 \/ code >= 500

Removed(code) == code \in {204, 404}

DeleteCalls == Tail(trace)

\* C29: remove_users_from_team issues one DELETE per non-blank username, in
\* order; 204 and 404 count the user as removed, 403 and every other status
\* below 500 as failed, and the following users are still processed; a
\* status of 500 or more or a network failure stops the call, which raises;
\* on normal return success_count + failed_count is the number of non-blank
\* usernames.
C29_DeletePolicy ==
    pc = "removed" =>
        LET call  == trace[1]
            names == NonBlank(call.arg)
        IN  /\ Len(DeleteCalls) <= Len(names)
            /\ \A k \in DOMAIN DeleteCalls :
                 /\ DeleteCalls[k].arg = names[k]
                 /\ Raises(DeleteCalls[k].code) => k = Len(DeleteCalls)
            /\ result = "raised" <=>
                 \E k \in DOMAIN DeleteCalls : Raises(DeleteCalls[k].code)
            /\ result = "returned" =>
                 /\ Len(DeleteCalls) = Len(names)
                 /\ call.success_count =
                      Cardinality({k \in DOMAIN DeleteCalls : Removed(DeleteCalls[k].code)})
                 /\ call.failed_count =
                      Cardinality({k \in DOMAIN DeleteCalls : ~Removed(DeleteCalls[k].code)})
                 /\ call.success_count + call.failed_count = Len(names)
                 /\ \A k \in DOMAIN DeleteCalls :
                      call.details[k] =
                          <<names[k], IF Removed(DeleteCalls[k].code) THEN "Success"
                                      ELSE "Failed">>

\* a call returned after a blank username was left out, one DELETE was
\* refused with 403 and a later one was answered 204
C29_Witness ==
    /\ pc = "removed" /\ result = "returned"
    /\ Len(trace[1].arg) = 3 /\ Len(DeleteCalls) = 2
    /\ DeleteCalls[1].code = 403 /\ DeleteCalls[2].code = 204
    /\ trace[1].failed_count = 1 /\ trace[1].success_count = 1
    /\ DeleteCalls[2].arg = uV /\ ~DictHas(tgt[1].members, uV)

----------------------------------------------------------------------------
(* Properties of the removal of members before a team is bound *)

\* positions of the step's calls that are DELETEs of a membership
DeletesAt == {i \in DOMAIN trace' : trace'[i].op = "delete_membership"}

PatchesAt == {i \in DOMAIN trace' : trace'[i].op = "patch_binding"}

\* positions before i of the binding queries for the team at the loop's
\* position
ChecksBefore(i) ==
    {j \in 1..(i - 1) : trace'[j].op = "get_binding" /\ trace'[j].arg = team_name}

C30_RemovalStep ==
    /\ DeletesAt # {} => InTeamLoop /\ map_idp_groups
    /\ \A i \in DeletesAt :
         /\ ChecksBefore(i) # {}
         /\ \A j \in ChecksBefore(i) : ~trace'[j].is_mapped
         /\ \A k \in PatchesAt : i < k
    /\ (\E i \in DeletesAt : Raises(trace'[i].code)) =>
         /\ PatchesAt = {}
         /\ DictGet(migration_details', team_name).idp_mapping_status = "failed"

\* with IDP mapping off no target team ever loses a member
C30_MembersKept ==
    ~map_idp_groups =>
        \A i \in DOMAIN tgt : \A j \in DOMAIN tgt' :
            tgt[i].slug = tgt'[j].slug =>
                KeySet(tgt[i].members) \subseteq KeySet(tgt'[j].members)

\* C30: members of a target team are removed only in the IDP branch of the
\* team's processing, after the binding query reported the team as not bound
\* to the expected group; every removal comes before the PATCH that binds
\* the team; when the removal raises no PATCH is issued for the team; and
\* with IDP mapping off no member is removed at all.
C30_RemovalBeforeBinding ==
    /\ [][C30_RemovalStep]_vars
    /\ [][C30_MembersKept]_vars

\* a team reported as not bound had its member removed and was then bound
C30_Witness ==
    /\ map_idp_groups
    /\ \E i, j, k \in DOMAIN trace :
         /\ i < j /\ j < k
         /\ trace[i].op = "get_binding" /\ ~trace[i].is_mapped
         /\ trace[j].op = "delete_membership" /\ trace[j].code = 204
         /\ trace[k].op = "patch_binding" /\ trace[k].code = 200
    /\ \E t \in KeySet(migration_details) :
         DictGet(migration_details, t).idp_mapping_status = "success"

----------------------------------------------------------------------------
(* Properties of the order of processing *)

\* the invocation is in its team loop, between two teams or inside
\* migrate_team_members for the current one
AtTeam == InTeamLoop \/ pc \in {"members_list", "members", "members_done"}

\* the batches are non-empty, hold at most batch_size teams and make up the
\* ordered list
C31_BatchesCoverList ==
    pc \in {"process", "members_list", "members", "members_done",
            "link", "summary", "done"} =>
        /\ Flatten(batches) = teams_to_migrate
        /\ \A k \in DOMAIN batches : Len(batches[k]) \in 1..batch_size
        /\ AtTeam => /\ position \in DOMAIN teams_to_migrate
                     /\ team_name = teams_to_migrate[position]

\* a step of the loop stays at its team or, ending it, moves one position on;
\* the loop is entered at the first position and left after the last
C31_OneByOne ==
    /\ (pc = "prepare" /\ pc' = "process") => position' = 1
    /\ (AtTeam /\ SameInvocation) =>
          /\ teams_to_migrate' = teams_to_migrate
          /\ IF EndsTeam
             THEN IF position < Len(teams_to_migrate)
                  THEN pc' = "process" /\ position' = position + 1
                  ELSE pc' \in {"link", "summary"}
             ELSE pc' \in {"members_list", "members", "members_done"}
                  /\ position' = position

\* C31: when no rate limit restarts the invocation, the teams of the ordered
\* list are processed in list order, each position of the list exactly once,
\* in batches of at most batch_size teams whose concatenation is the list.
C31_ListOrder ==
    /\ []C31_BatchesCoverList
    /\ [][C31_OneByOne]_vars

\* a run without restart returned after its second batch, the first batch
\* full and the second not
C31_Witness ==
    /\ pc = "done" /\ ~restarted
    /\ Len(batches) = 2 /\ Len(batches[1]) = batch_size /\ Len(batches[2]) < batch_size
    /\ batch_num = 2 /\ index = Len(batches[2])
    /\ Len(migration_status) >= 2

----------------------------------------------------------------------------
(* Properties of the teams without an IDP group *)

\* IDP mapping is on and the lowercase name of the team at the loop's
\* position is not a key of the IDP group cache
Ungrouped ==
    InTeamLoop /\ map_idp_groups /\ ~DictHas(idp_group_cache, Lower(team_name))

\* the step issues no create, no binding query, no DELETE and no PATCH
NothingIssued ==
    \A i \in DOMAIN trace' :
        trace'[i].op \notin {"create_team", "get_binding", "delete_membership",
                             "patch_binding"}

\* lines 751-756
RecordedSkipped ==
    /\ migration_status' = DictPut(migration_status, team_name, "skipped")
    /\ DictHas(migration_details', team_name)
    /\ DictGet(migration_details', team_name).idp_mapping_status = "group_not_found"

\* C32 as claimed: with IDP mapping on, a team whose lowercase name is not a
\* key of the IDP group cache is recorded skipped with idp_mapping_status
\* group_not_found, and no create, binding query, DELETE or PATCH is issued
\* for it.
C32_UngroupedSkipped ==
    [][Ungrouped => (RecordedSkipped /\ NothingIssued /\ tgt' = tgt)]_vars

C32_UngroupedStep ==
    Ungrouped =>
        /\ NothingIssued
        /\ tgt' = tgt
        /\ IF DictHas(team_cache, Lower(team_name))
           THEN RecordedSkipped
           ELSE /\ migration_status' = DictPut(migration_status, team_name, "failed")
                /\ migration_details' = migration_details
        /\ LoopGoesOn

\* C32, amended: with IDP mapping on, a team that is in the source cache and
\* whose lowercase name is not a key of the IDP group cache is recorded
\* skipped with idp_mapping_status group_not_found; a team that is not in the
\* source cache is recorded failed, without details; in both cases no create,
\* binding query, DELETE or PATCH is issued and the loop goes on.
C32_UngroupedSkippedIfCached == [][C32_UngroupedStep]_vars

\* a run with IDP mapping returned with one team skipped for want of a group
\* and another created and bound
C32_Witness ==
    /\ pc = "done" /\ map_idp_groups
    /\ \E t \in KeySet(migration_details) :
         /\ DictGet(migration_status, t) = "skipped"
         /\ DictGet(migration_details, t).idp_mapping_status = "group_not_found"
    /\ \E t \in KeySet(migration_details) :
         DictGet(migration_details, t).idp_mapping_status = "success"

----------------------------------------------------------------------------
(* Properties of the counters returned by migrate_team_members *)

\* the entries of the details whose outcome is one of the given ones
EntriesWith(details, outcomes) ==
    { k \in DOMAIN details : details[k][2] \in outcomes }

\* lines 217-223: the return after the member loop
NormalReturn == pc = "members" /\ pc' = "members_done"

C33_ReturnStep ==
    NormalReturn =>
        LET r       == member_results'
            members == src[source_team].members
        IN  /\ r.total_members = Len(members)
            /\ r.members_migrated + r.members_failed = r.total_members
            /\ r.members_migrated =
                 Cardinality(EntriesWith(r.member_details, {"success"}))
            /\ r.members_failed =
                 Cardinality(EntriesWith(r.member_details, {"skipped", "failed"}))
            /\ Len(r.member_details) = Len(members)
            /\ \A k \in DOMAIN members :
                 /\ r.member_details[k][1] = members[k]
                 /\ r.member_details[k][2] \in {"success", "skipped", "failed"}

\* C33: when migrate_team_members returns after a successful member listing,
\* members_migrated + members_failed = total_members, every skipped member is
\* counted in members_failed, and member_details holds exactly one entry per
\* source member, in source order.
C33_CountersAddUp == [][C33_ReturnStep]_vars

\* the function returned for a team of two members of which the first was
\* skipped and the second was added
C33_Witness ==
    /\ pc = "members_done"
    /\ member_results.total_members = 2
    /\ member_results.members_migrated = 1
    /\ member_results.members_failed = 1
    /\ member_results.member_details[1][2] = "skipped"
    /\ member_results.member_details[2][2] = "success"

----------------------------------------------------------------------------
(* Properties of the status of a team whose binding fails *)

\* lines 781-788: the step enters the IDP branch for the team at the loop's
\* position, which create_gh_team created or adopted; the branch starts with
\* the binding query
IdpBranchTaken ==
    /\ InTeamLoop /\ map_idp_groups /\ idp_group_exists
    /\ \E i \in DOMAIN trace' : trace'[i].op = "get_binding"

C34_IdpStep ==
    IdpBranchTaken =>
        /\ migration_status' = DictPut(migration_status, team_name, "success")
        /\ DictHas(migration_details', team_name)
        /\ DictGet(migration_details', team_name).idp_mapping_status
               \in {"success", "already_mapped", "failed"}
        /\ LoopGoesOn

\* lines 923-934: a run returns false only if some team's status is neither
\* success nor exists
C34_FalseNeedsFailure ==
    (pc = "done" /\ result = "False") =>
        \E t \in KeySet(migration_status) :
            DictGet(migration_status, t) \notin {"success", "exists"}

\* C34: with IDP mapping on, a team that was created or adopted and whose
\* group is in the IDP cache is recorded "success" whatever its
\* idp_mapping_status ends as (success, already_mapped or failed); the run
\* returns false only for a team whose status is not success or exists, so a
\* failed binding alone never makes it return false.
C34_BindingFailureIsSuccess ==
    /\ [][C34_IdpStep]_vars
    /\ []C34_FalseNeedsFailure

\* a run with IDP mapping returned true although the binding of one of its
\* teams failed
C34_Witness ==
    /\ pc = "done" /\ map_idp_groups /\ result = "True"
    /\ \E t \in KeySet(migration_details) :
         /\ DictGet(migration_details, t).idp_mapping_status = "failed"
         /\ DictGet(migration_status, t) = "success"

----------------------------------------------------------------------------
(* Properties of the children that get a parent link *)

\* the pair of the parent-link loop that the next step handles
LinkChild  == parent_child_relationships[rel_index][1]
LinkParent == parent_child_relationships[rel_index][2]

\* the step calls set_team_parent (line 914)
LinkAttempted ==
    \/ \E i \in DOMAIN trace' : trace'[i].op = "set_team_parent"
    \/ parentCalls' # parentCalls

\* line 896, read off the status ledger
RecordedMigrated(child) ==
    \E i \in DOMAIN migration_status :
        /\ migration_status[i][1] = child
        /\ migration_status[i][2] \in {"success", "exists"}

C35_LinkStep ==
    (pc = "link" /\ rel_index <= Len(parent_child_relationships)) =>
        /\ LinkAttempted =>
              /\ RecordedMigrated(LinkChild)
              /\ \A i \in DOMAIN trace' :
                    trace'[i].op = "set_team_parent" => trace'[i].arg = LinkChild
        /\ ~RecordedMigrated(LinkChild) =>
              /\ \A i \in DOMAIN trace' :
                    trace'[i].op \notin {"set_team_parent", "get_team_by_name"}
              /\ tgt' = tgt
              /\ target_teams_cache' = target_teams_cache
        /\ (/\ RecordedMigrated(LinkChild)
            /\ CachedTeam(target_teams_cache, LinkChild) # NoTeam
            /\ CachedTeam(target_teams_cache, LinkParent) # NoTeam) => LinkAttempted

\* C35: in the parent-link phase set_team_parent is called only for a child
\* whose recorded status is "success" or "exists"; a child recorded
\* "partial_success", "skipped" or "failed", or with no status entry in this
\* invocation, gets no lookup and no link, and whenever such a child and its
\* parent are both found the link is attempted whatever the parent's status.
C35_LinkOnlyMigratedChild == [][C35_LinkStep]_vars

\* a child was linked to a parent that has no entry in the status ledger of
\* the invocation
C35_Witness ==
    /\ pc \in {"link", "summary", "done"}
    /\ parentCalls # <<>>
    /\ \E k \in 1..(rel_index - 1) :
         /\ k \in DOMAIN parent_child_relationships
         /\ RecordedMigrated(parent_child_relationships[k][1])
         /\ ~RecordedMigrated(parent_child_relationships[k][2])
    /\ \E k \in 1..(rel_index - 1) :
         /\ k \in DOMAIN parent_child_relationships
         /\ ~RecordedMigrated(parent_child_relationships[k][1])

====
